---- MODULE Spec2Model ----
(***************************************************************************)
(* Model of the three stateful cores of the repository:                    *)
(*   - ConnectionManager (shared/infra/websocket/websocket_manager.py):    *)
(*     the registry of websocket connections and their monitor loops;      *)
(*   - MonitoringSetupUseCase / MonitoringScheduleUseCase over             *)
(*     MonitoringRepository: monitoring sessions and captures;             *)
(*   - CombinedProcessingUseCase: the detect -> maturation pipeline and    *)
(*     its persisted processing status.                                    *)
(* The DynamoDB table, the websocket transport and the inference service   *)
(* are the environment: every call to them either answers or raises, and   *)
(* the model lets either happen.                                           *)
(***************************************************************************)
EXTENDS Integers, Sequences, FiniteSets, TLC

\* ------------------------------------------------------------------ bounds
MaxConn == 1
MaxTasks == 2
MaxSessions == 2
MaxCaptures == 1
MaxStarts == 2
MaxBroadcast == 2
MaxUpdated == 1
MaxProcs == 2
MaxRaceCaptures == 2

\* Python's None, and None where an int is expected
NoneV == "None"
NoInterval == 0

VARIABLES
    \* ConnectionManager
    active_connections,   \* self.active_connections: set of connection ids
    connection_configs,   \* self.connection_configs: id -> config dict
    scheduled_tasks,      \* self.scheduled_tasks: id -> task (index in tasks)
    tasks,                \* the asyncio tasks running _monitor_loop, by number
    connCount,            \* number of connection ids minted by uuid4()
    taskCount,            \* number of tasks created by asyncio.create_task
    lastCall,             \* the last ConnectionManager call and what it returned
    bcast,                \* the locals of the broadcast call under way
    handlers,             \* the websocket_endpoint calls, by connection id:
                          \* the await each stands at and what it is sending
    \* monitoring sessions (items of the DynamoDB table)
    sessions,             \* STATION#/SESSION# items: session id -> session
    captures,             \* SESSION#/CAPTURE# items: capture id -> capture
    sessCount,            \* number of session ids minted (sess-uuid4)
    capCount,             \* number of capture ids minted (cap-uuid4)
    sessRet,              \* the last session operation and how it ended
    procs,                \* the session calls under way, by caller: their
                          \* locals and the await they stand at
    deactivated,          \* the sessions a create_session or stop_session
                          \* call has written with active = False
    \* combined processing: the run that is followed and the status items
    status,               \* PROCESSING#/STATUS items: request id -> status_data
    items,                \* IMG# items: <<image id, kind>> -> item
    run,                  \* the locals of the execution and where it stands
    calls,                \* the inference calls made, in order
    uuidCount,            \* number of uuid4() ids minted
    reply,                \* what the last get_processing_status or
                          \* get_result_by_request_id call gave its caller
    \* entities built on their own
    crArgs,               \* the arguments of a CombinedResult(...) call
    crResult              \* the CombinedResult it built (ReturnNone: not yet)

connVars == <<active_connections, connection_configs, scheduled_tasks, tasks,
              connCount, taskCount, lastCall>>

sessVars == <<sessions, captures, sessCount, capCount, sessRet>>

raceVars == <<procs, deactivated>>

pipeVars == <<status, items, run, calls, uuidCount, reply>>

entVars == <<crArgs, crResult>>

vars == <<connVars, bcast, handlers, sessVars, raceVars, pipeVars, entVars>>

\* what a step of one component leaves alone
ConnFrame == UNCHANGED <<bcast, handlers, sessVars, raceVars, pipeVars, entVars>>
BroadcastFrame == UNCHANGED <<handlers, sessVars, raceVars, pipeVars, entVars>>
SessFrame == UNCHANGED <<connVars, bcast, handlers, raceVars, pipeVars, entVars>>
RaceFrame == UNCHANGED <<connVars, bcast, handlers, sessRet, pipeVars, entVars>>
PipeFrame == UNCHANGED <<connVars, bcast, handlers, sessVars, raceVars, entVars>>
EntFrame == UNCHANGED <<connVars, bcast, handlers, sessVars, raceVars, pipeVars>>
HandlerFrame == UNCHANGED <<bcast, raceVars, pipeVars, entVars>>

\* ------------------------------------------------------ ConnectionManager
ConnIds == 1..MaxConn
StationIds == {NoneV, "st1"}
UserIds == {NoneV, "u1"}
Intervals == {5}

\* the config dict written by connect()
DefaultConfig ==
    [interval_minutes |-> 5, is_active |-> FALSE, station_id |-> NoneV,
     user_id |-> NoneV, last_capture |-> NoneV]

\* dict.pop(key) on a function
Pop(f, k) == [x \in DOMAIN f \ {k} |-> f[x]]

\* x in seq, for a list
InSeq(seq, x) == \E i \in 1..Len(seq) : seq[i] = x

\* dict[key] = value on a function
Put(f, k, v) == [x \in DOMAIN f \cup {k} |-> IF x = k THEN v ELSE f[x]]

\* task.done(): the coroutine has returned or was cancelled before it ran
TaskDone(t) == t.pc = "done"

\* a loop that can still emit capture requests: not finished and no
\* cancellation pending (a pending cancellation is delivered as
\* CancelledError at the task's next resumption, before any further send)
TaskLive(t) == ~TaskDone(t) /\ ~t.must_cancel

\* a finished task that scheduled_tasks no longer refers to is garbage:
\* tasks keeps the unfinished tasks and the ones still referred to
Collect(ts, sched) ==
    LET keep == {t \in DOMAIN ts :
                    ~TaskDone(ts[t]) \/ (\E c \in DOMAIN sched : sched[c] = t)}
    IN [t \in keep |-> ts[t]]

\* _cancel_scheduled_task with the task.cancel() call left out
cancel_scheduled_task_nocancel(ts, sched, c) ==
    IF c \in DOMAIN sched
    THEN [tasks |-> ts, sched |-> Pop(sched, c), cancelled |-> 0]
    ELSE [tasks |-> ts, sched |-> sched, cancelled |-> 0]

\* _cancel_scheduled_task(connection_id) applied to (tasks, scheduled_tasks);
\* cancelled is the task it called cancel() on (0: none)
cancel_scheduled_task(ts, sched, c) ==
    IF c \in DOMAIN sched
    THEN LET t == sched[c]
             hit == ~TaskDone(ts[t])
         IN [tasks |-> IF hit THEN [ts EXCEPT ![t].must_cancel = TRUE] ELSE ts,
             sched |-> Pop(sched, c),
             cancelled |-> IF hit THEN t ELSE 0]
    ELSE [tasks |-> ts, sched |-> sched, cancelled |-> 0]

\* _schedule_monitoring(connection_id): cancel, create_task, remember it
schedule_monitoring(ts, sched, c) ==
    LET k == cancel_scheduled_task(ts, sched, c)
        id == taskCount + 1
        new == [conn |-> c, pc |-> "new", must_cancel |-> FALSE]
    IN [tasks |-> Put(k.tasks, id, new),
        sched |-> Put(k.sched, c, id),
        cancelled |-> k.cancelled]

\* the locals of broadcast: pc, the key the for loop stands at (cur), the
\* dict size its iterator was created with, the ids whose send_json
\* returned (sent) and disconnected_ids (failed)
IdleBroadcast ==
    [pc |-> "idle", cur |-> 0, size |-> 0, sent |-> {}, failed |-> {}]

\* a call record; failed tells whether the transport raised in send_json
Call(op, c, ret, cancelled) ==
    [op |-> op, conn |-> c, ret |-> ret, cancelled |-> cancelled,
     failed |-> FALSE]

\* connect(websocket): mint an id, accept, register transport and config;
\* n bounds the ids minted
connect_upto(n) ==
    /\ connCount < n
    /\ LET c == connCount + 1 IN
        /\ connCount' = c
        /\ active_connections' = active_connections \cup {c}
        /\ connection_configs' = Put(connection_configs, c, DefaultConfig)
        /\ lastCall' = Call("connect", c, TRUE, 0)
    /\ UNCHANGED <<scheduled_tasks, tasks, taskCount>>

connect == connect_upto(MaxConn)

\* disconnect that forgets the task handle without cancelling the task
disconnect_nocancel(c) ==
    /\ IF c \in active_connections
       THEN LET k == cancel_scheduled_task_nocancel(tasks, scheduled_tasks, c) IN
            /\ tasks' = Collect(k.tasks, k.sched)
            /\ scheduled_tasks' = k.sched
            /\ active_connections' = active_connections \ {c}
            /\ connection_configs' = Pop(connection_configs, c)
            /\ lastCall' = Call("disconnect", c, TRUE, k.cancelled)
       ELSE /\ lastCall' = Call("disconnect", c, FALSE, 0)
            /\ UNCHANGED <<tasks, scheduled_tasks, active_connections,
                           connection_configs>>
    /\ UNCHANGED <<connCount, taskCount>>

\* disconnect leaving the config entry in place
disconnect_keeps_config(c) ==
    /\ IF c \in active_connections
       THEN LET k == cancel_scheduled_task(tasks, scheduled_tasks, c) IN
            /\ tasks' = Collect(k.tasks, k.sched)
            /\ scheduled_tasks' = k.sched
            /\ active_connections' = active_connections \ {c}
            /\ connection_configs' = connection_configs
            /\ lastCall' = Call("disconnect", c, TRUE, k.cancelled)
       ELSE /\ lastCall' = Call("disconnect", c, FALSE, 0)
            /\ UNCHANGED <<tasks, scheduled_tasks, active_connections,
                           connection_configs>>
    /\ UNCHANGED <<connCount, taskCount>>

\* disconnect(connection_id); ret tells whether the id was registered
disconnect(c) ==
    /\ IF c \in active_connections
       THEN LET k == cancel_scheduled_task(tasks, scheduled_tasks, c) IN
            /\ tasks' = Collect(k.tasks, k.sched)
            /\ scheduled_tasks' = k.sched
            /\ active_connections' = active_connections \ {c}
            /\ connection_configs' = Pop(connection_configs, c)
            /\ lastCall' = Call("disconnect", c, TRUE, k.cancelled)
       ELSE /\ lastCall' = Call("disconnect", c, FALSE, 0)
            /\ UNCHANGED <<tasks, scheduled_tasks, active_connections,
                           connection_configs>>
    /\ UNCHANGED <<connCount, taskCount>>

\* configure_monitoring that cancels the previous task only when it schedules
\* a new one
configure_monitoring_keeps_loop(c, iv, st, us, act) ==
    /\ IF c \notin active_connections
       THEN /\ lastCall' = Call("configure", c, FALSE, 0)
            /\ UNCHANGED <<tasks, scheduled_tasks, connection_configs, taskCount>>
       ELSE LET k0 == [tasks |-> tasks, sched |-> scheduled_tasks,
                       cancelled |-> 0]
                cfg == [interval_minutes |-> iv, is_active |-> act,
                        station_id |-> st, user_id |-> us,
                        last_capture |-> NoneV]
                k2 == IF act
                      THEN schedule_monitoring(tasks, scheduled_tasks, c)
                      ELSE k0
            IN /\ act => taskCount < MaxTasks
               /\ connection_configs' = Put(connection_configs, c, cfg)
               /\ tasks' = Collect(k2.tasks, k2.sched)
               /\ scheduled_tasks' = k2.sched
               /\ taskCount' = IF act THEN taskCount + 1 ELSE taskCount
               /\ lastCall' = Call("configure", c, TRUE, k2.cancelled)
    /\ UNCHANGED <<active_connections, connCount>>

\* configure_monitoring(connection_id, interval_minutes, station_id, user_id,
\* is_active)
configure_monitoring(c, iv, st, us, act) ==
    /\ IF c \notin active_connections
       THEN /\ lastCall' = Call("configure", c, FALSE, 0)
            /\ UNCHANGED <<tasks, scheduled_tasks, connection_configs, taskCount>>
       ELSE LET k1 == cancel_scheduled_task(tasks, scheduled_tasks, c)
                cfg == [interval_minutes |-> iv, is_active |-> act,
                        station_id |-> st, user_id |-> us,
                        last_capture |-> NoneV]
                k2 == IF act
                      THEN schedule_monitoring(k1.tasks, k1.sched, c)
                      ELSE k1
            IN /\ act => taskCount < MaxTasks
               /\ connection_configs' = Put(connection_configs, c, cfg)
               /\ tasks' = Collect(k2.tasks, k2.sched)
               /\ scheduled_tasks' = k2.sched
               /\ taskCount' = IF act THEN taskCount + 1 ELSE taskCount
               /\ lastCall' = Call("configure", c, TRUE, k1.cancelled)
    /\ UNCHANGED <<active_connections, connCount>>

\* start_monitoring that refuses only a config with neither station nor user
start_monitoring_needs_one(c) ==
    /\ IF c \notin DOMAIN connection_configs
       THEN /\ lastCall' = Call("start", c, FALSE, 0)
            /\ UNCHANGED <<tasks, scheduled_tasks, connection_configs, taskCount>>
       ELSE LET config == connection_configs[c] IN
            IF config.station_id = NoneV /\ config.user_id = NoneV
            THEN /\ lastCall' = Call("start", c, FALSE, 0)
                 /\ UNCHANGED <<tasks, scheduled_tasks, connection_configs,
                                taskCount>>
            ELSE LET k == schedule_monitoring(tasks, scheduled_tasks, c) IN
                 /\ taskCount < MaxTasks
                 /\ connection_configs' =
                        [connection_configs EXCEPT ![c].is_active = TRUE]
                 /\ tasks' = Collect(k.tasks, k.sched)
                 /\ scheduled_tasks' = k.sched
                 /\ taskCount' = taskCount + 1
                 /\ lastCall' = Call("start", c, TRUE, k.cancelled)
    /\ UNCHANGED <<active_connections, connCount>>

\* start_monitoring(connection_id)
start_monitoring(c) ==
    /\ IF c \notin DOMAIN connection_configs
       THEN /\ lastCall' = Call("start", c, FALSE, 0)
            /\ UNCHANGED <<tasks, scheduled_tasks, connection_configs, taskCount>>
       ELSE LET config == connection_configs[c] IN
            IF config.station_id = NoneV \/ config.user_id = NoneV
            THEN /\ lastCall' = Call("start", c, FALSE, 0)
                 /\ UNCHANGED <<tasks, scheduled_tasks, connection_configs,
                                taskCount>>
            ELSE LET k == schedule_monitoring(tasks, scheduled_tasks, c) IN
                 /\ taskCount < MaxTasks
                 /\ connection_configs' =
                        [connection_configs EXCEPT ![c].is_active = TRUE]
                 /\ tasks' = Collect(k.tasks, k.sched)
                 /\ scheduled_tasks' = k.sched
                 /\ taskCount' = taskCount + 1
                 /\ lastCall' = Call("start", c, TRUE, k.cancelled)
    /\ UNCHANGED <<active_connections, connCount>>

\* send_personal_message that drops the connection when send_json raises
send_personal_message_disconnects(c, ok) ==
    /\ IF c \in active_connections /\ ~ok
       THEN LET k == cancel_scheduled_task(tasks, scheduled_tasks, c) IN
            /\ tasks' = Collect(k.tasks, k.sched)
            /\ scheduled_tasks' = k.sched
            /\ active_connections' = active_connections \ {c}
            /\ connection_configs' = Pop(connection_configs, c)
            /\ lastCall' = [Call("send", c, FALSE, 0) EXCEPT !.failed = TRUE]
       ELSE /\ lastCall' = Call("send", c, c \in active_connections, 0)
            /\ UNCHANGED <<tasks, scheduled_tasks, active_connections,
                           connection_configs>>
    /\ UNCHANGED <<connCount, taskCount>>

\* send_personal_message(message, connection_id); ok: send_json returned
send_personal_message(c, ok) ==
    /\ lastCall' = IF c \in active_connections
                   THEN [Call("send", c, ok, 0) EXCEPT !.failed = ~ok]
                   ELSE Call("send", c, FALSE, 0)
    /\ UNCHANGED <<tasks, scheduled_tasks, active_connections,
                   connection_configs, connCount, taskCount>>

\* stop_monitoring that forgets the task without cancelling it
stop_monitoring_nocancel(c) ==
    /\ IF c \notin DOMAIN connection_configs
       THEN /\ lastCall' = Call("stop", c, FALSE, 0)
            /\ UNCHANGED <<tasks, scheduled_tasks, connection_configs>>
       ELSE LET k == cancel_scheduled_task_nocancel(tasks, scheduled_tasks, c) IN
            /\ tasks' = Collect(k.tasks, k.sched)
            /\ scheduled_tasks' = k.sched
            /\ connection_configs' =
                   [connection_configs EXCEPT ![c].is_active = FALSE]
            /\ lastCall' = Call("stop", c, TRUE, k.cancelled)
    /\ UNCHANGED <<active_connections, connCount, taskCount>>

\* stop_monitoring(connection_id)
stop_monitoring(c) ==
    /\ IF c \notin DOMAIN connection_configs
       THEN /\ lastCall' = Call("stop", c, FALSE, 0)
            /\ UNCHANGED <<tasks, scheduled_tasks, connection_configs>>
       ELSE LET k == cancel_scheduled_task(tasks, scheduled_tasks, c) IN
            /\ tasks' = Collect(k.tasks, k.sched)
            /\ scheduled_tasks' = k.sched
            /\ connection_configs' =
                   [connection_configs EXCEPT ![c].is_active = FALSE]
            /\ lastCall' = Call("stop", c, TRUE, k.cancelled)
    /\ UNCHANGED <<active_connections, connCount, taskCount>>

\* _monitor_loop, from its start or from the end of a sleep up to the
\* send_json call: the while test, the is_active test, then the
\* capture_request is handed to the transport
monitor_loop_iterate(t) ==
    /\ t \in DOMAIN tasks
    /\ tasks[t].pc \in {"new", "sleep"}
    /\ ~tasks[t].must_cancel
    /\ LET c == tasks[t].conn IN
       IF /\ c \in active_connections
          /\ c \in DOMAIN connection_configs
          /\ connection_configs[c].is_active
       THEN tasks' = [tasks EXCEPT ![t].pc = "send"]
       ELSE tasks' = Collect([tasks EXCEPT ![t].pc = "done"], scheduled_tasks)
    /\ UNCHANGED <<active_connections, connection_configs, scheduled_tasks,
                   connCount, taskCount, lastCall>>

\* _monitor_loop whose except branch leaves is_active as it is
monitor_loop_sent_keeps_active(t, sent) ==
    /\ t \in DOMAIN tasks
    /\ tasks[t].pc = "send"
    /\ ~tasks[t].must_cancel
    /\ LET c == tasks[t].conn IN
       IF sent /\ c \notin DOMAIN connection_configs
       THEN /\ tasks' = Collect([tasks EXCEPT ![t].pc = "done"], scheduled_tasks)
            /\ UNCHANGED connection_configs
       ELSE LET stamped ==
                    IF sent
                    THEN [connection_configs EXCEPT ![c].last_capture = "ts"]
                    ELSE connection_configs
            IN IF /\ c \in DOMAIN connection_configs
                  /\ connection_configs[c].interval_minutes = NoInterval
               THEN /\ tasks' = Collect([tasks EXCEPT ![t].pc = "done"],
                                        scheduled_tasks)
                    /\ connection_configs' = stamped
               ELSE /\ tasks' = [tasks EXCEPT ![t].pc = "sleep"]
                    /\ connection_configs' = stamped
    /\ UNCHANGED <<active_connections, scheduled_tasks, connCount, taskCount,
                   lastCall>>

\* _monitor_loop after send_personal_message returned sent: record
\* last_capture when sent, compute the interval and go to sleep. A KeyError
\* on a config that is gone, or the TypeError of None * 60 when
\* interval_minutes is None, ends the loop in the except branch, which sets
\* is_active to False when the config is still there
monitor_loop_sent(t, sent) ==
    /\ t \in DOMAIN tasks
    /\ tasks[t].pc = "send"
    /\ ~tasks[t].must_cancel
    /\ LET c == tasks[t].conn IN
       IF sent /\ c \notin DOMAIN connection_configs
       THEN /\ tasks' = Collect([tasks EXCEPT ![t].pc = "done"], scheduled_tasks)
            /\ UNCHANGED connection_configs
       ELSE LET stamped ==
                    IF sent
                    THEN [connection_configs EXCEPT ![c].last_capture = "ts"]
                    ELSE connection_configs
            IN IF /\ c \in DOMAIN connection_configs
                  /\ connection_configs[c].interval_minutes = NoInterval
               THEN /\ tasks' = Collect([tasks EXCEPT ![t].pc = "done"],
                                        scheduled_tasks)
                    /\ connection_configs' =
                           [stamped EXCEPT ![c].is_active = FALSE]
               ELSE /\ tasks' = [tasks EXCEPT ![t].pc = "sleep"]
                    /\ connection_configs' = stamped
    /\ UNCHANGED <<active_connections, scheduled_tasks, connCount, taskCount,
                   lastCall>>

\* _monitor_loop whose CancelledError branch sets is_active to False
monitor_loop_cancelled_deactivates(t) ==
    /\ t \in DOMAIN tasks
    /\ tasks[t].must_cancel
    /\ ~TaskDone(tasks[t])
    /\ tasks' = Collect([tasks EXCEPT ![t].pc = "done", ![t].must_cancel = FALSE],
                        scheduled_tasks)
    /\ connection_configs' =
          IF tasks[t].conn \in DOMAIN connection_configs
          THEN [connection_configs EXCEPT ![tasks[t].conn].is_active = FALSE]
          ELSE connection_configs
    /\ UNCHANGED <<active_connections, scheduled_tasks,
                   connCount, taskCount, lastCall>>

\* _monitor_loop resumed with CancelledError (or cancelled before its first
\* step): the task ends without touching the registry
monitor_loop_cancelled(t) ==
    /\ t \in DOMAIN tasks
    /\ tasks[t].must_cancel
    /\ ~TaskDone(tasks[t])
    /\ tasks' = Collect([tasks EXCEPT ![t].pc = "done", ![t].must_cancel = FALSE],
                        scheduled_tasks)
    /\ UNCHANGED <<active_connections, connection_configs, scheduled_tasks,
                   connCount, taskCount, lastCall>>

InitConn ==
    /\ active_connections = {}
    /\ connection_configs = <<>>
    /\ scheduled_tasks = <<>>
    /\ tasks = <<>>
    /\ connCount = 0
    /\ taskCount = 0
    /\ lastCall = Call("init", 0, TRUE, 0)
    /\ bcast = IdleBroadcast
    /\ handlers = <<>>

NextConn ==
    \/ connect /\ ConnFrame
    \/ \E c \in ConnIds : disconnect(c) /\ ConnFrame
    \/ \E c \in ConnIds, iv \in Intervals, st \in StationIds, us \in UserIds,
          act \in BOOLEAN :
          configure_monitoring(c, iv, st, us, act) /\ ConnFrame
    \/ \E c \in ConnIds : start_monitoring(c) /\ ConnFrame
    \/ \E c \in ConnIds : stop_monitoring(c) /\ ConnFrame
    \/ \E t \in 1..MaxTasks : monitor_loop_iterate(t) /\ ConnFrame
    \/ \E t \in 1..MaxTasks, sent \in BOOLEAN :
          monitor_loop_sent(t, sent) /\ ConnFrame
    \/ \E t \in 1..MaxTasks : monitor_loop_cancelled(t) /\ ConnFrame

\* loops of connections configured with an interval or with None for it
LoopIntervals == {5, NoInterval}

NextLoop ==
    \/ connect /\ ConnFrame
    \/ \E c \in ConnIds : disconnect(c) /\ ConnFrame
    \/ \E c \in ConnIds, iv \in LoopIntervals, act \in BOOLEAN :
          configure_monitoring(c, iv, "st1", "u1", act) /\ ConnFrame
    \/ \E c \in ConnIds : start_monitoring(c) /\ ConnFrame
    \/ \E c \in ConnIds : stop_monitoring(c) /\ ConnFrame
    \/ \E t \in 1..MaxTasks : monitor_loop_iterate(t) /\ ConnFrame
    \/ \E t \in 1..MaxTasks, sent \in BOOLEAN :
          monitor_loop_sent(t, sent) /\ ConnFrame
    \/ \E t \in 1..MaxTasks : monitor_loop_cancelled(t) /\ ConnFrame

\* ----------------------------------------------------------- broadcast
BroadcastIds == 1..MaxBroadcast

\* the smallest of a non-empty set of ids: ids are inserted in the order
\* they are minted, and a dict iterates in insertion order
First(S) == CHOOSE c \in S : \A d \in S : c <= d

\* the registry after disconnect(c) for every c of S (lines 60-61)
RECURSIVE DisconnectAll(_, _)
DisconnectAll(reg, S) ==
    IF S = {} THEN reg
    ELSE LET c == First(S) IN
         IF c \in reg.active
         THEN LET k == cancel_scheduled_task(reg.tasks, reg.sched, c) IN
              DisconnectAll([active |-> reg.active \ {c},
                             configs |-> Pop(reg.configs, c),
                             tasks |-> k.tasks, sched |-> k.sched],
                            S \ {c})
         ELSE DisconnectAll(reg, S \ {c})

\* broadcast(message) up to its first await: the iterator over
\* active_connections.items() is created and send_json is called for the
\* first item; with no connection the call returns at once
broadcast_begin ==
    /\ bcast.pc # "iter"
    /\ bcast' = IF active_connections = {}
                THEN [IdleBroadcast EXCEPT !.pc = "done"]
                ELSE [pc |-> "iter", cur |-> First(active_connections),
                      size |-> Cardinality(active_connections),
                      sent |-> {}, failed |-> {}]
    /\ UNCHANGED connVars

\* broadcast resumed after send_json for cur (ok: it returned, otherwise it
\* raised and cur joins disconnected_ids); the iterator's next() raises
\* RuntimeError when the dict changed size during the await, otherwise it
\* gives the next item or ends the loop, and the second loop disconnects
\* the ids collected
broadcast_step(ok) ==
    /\ bcast.pc = "iter"
    /\ LET s == IF ok THEN bcast.sent \cup {bcast.cur} ELSE bcast.sent
           f == IF ok THEN bcast.failed ELSE bcast.failed \cup {bcast.cur}
           rest == {c \in active_connections : c > bcast.cur}
       IN
       IF Cardinality(active_connections) # bcast.size
       THEN /\ bcast' = [bcast EXCEPT !.pc = "raised", !.sent = s, !.failed = f]
            /\ UNCHANGED <<active_connections, connection_configs,
                           scheduled_tasks, tasks>>
       ELSE IF rest # {}
       THEN /\ bcast' = [bcast EXCEPT !.cur = First(rest), !.sent = s,
                                      !.failed = f]
            /\ UNCHANGED <<active_connections, connection_configs,
                           scheduled_tasks, tasks>>
       ELSE LET reg == DisconnectAll(
                          [active |-> active_connections,
                           configs |-> connection_configs,
                           tasks |-> tasks, sched |-> scheduled_tasks], f)
            IN /\ bcast' = [bcast EXCEPT !.pc = "done", !.sent = s,
                                         !.failed = f]
               /\ active_connections' = reg.active
               /\ connection_configs' = reg.configs
               /\ scheduled_tasks' = reg.sched
               /\ tasks' = Collect(reg.tasks, reg.sched)
    /\ UNCHANGED <<connCount, taskCount, lastCall>>

\* broadcast among connections that come and go and are configured while
\* it awaits a send
NextBroadcast ==
    \/ connect_upto(MaxBroadcast) /\ ConnFrame
    \/ \E c \in BroadcastIds : disconnect(c) /\ ConnFrame
    \/ \E c \in BroadcastIds, iv \in Intervals, st \in StationIds,
          us \in UserIds, act \in BOOLEAN :
          configure_monitoring(c, iv, st, us, act) /\ ConnFrame
    \/ broadcast_begin /\ BroadcastFrame
    \/ \E ok \in BOOLEAN : broadcast_step(ok) /\ BroadcastFrame

\* callers that send messages to connections whose loops were set up by
\* configure_monitoring
NextSend ==
    \/ connect /\ ConnFrame
    \/ \E c \in ConnIds : disconnect(c) /\ ConnFrame
    \/ \E c \in ConnIds, iv \in Intervals, st \in StationIds, us \in UserIds,
          act \in BOOLEAN :
          configure_monitoring(c, iv, st, us, act) /\ ConnFrame
    \/ \E c \in ConnIds, ok \in BOOLEAN :
          send_personal_message(c, ok) /\ ConnFrame
    \/ \E t \in 1..MaxTasks : monitor_loop_iterate(t) /\ ConnFrame
    \/ \E t \in 1..MaxTasks, sent \in BOOLEAN :
          monitor_loop_sent(t, sent) /\ ConnFrame
    \/ \E t \in 1..MaxTasks : monitor_loop_cancelled(t) /\ ConnFrame

\* ------------------------------------------------- monitoring sessions
Stations == {"st1", "st2"}
SessionIds == 1..MaxSessions
CaptureIds == 1..MaxCaptures

\* the table operations one call can make; F is the set of them that raise
SessStoreOps == {"query", "get", "upd_get", "upd_put", "put"}

\* a metadata dict is the set of its <<key, value>> items; the metadata
\* create_session is called with and the one update_session may be given
CreateMeta == {<<"a", 1>>, <<"c", 1>>}
UpdateMeta == {<<"a", 2>>, <<"b", 2>>}

\* dict.update(new) on a metadata dict
MetaUpdate(old, new) ==
    {p \in old : ~\E q \in new : q[1] = p[1]} \cup new

\* datetime.isoformat() and datetime.fromisoformat(): a string that is not
\* an isoformat raises ValueError, which from_dict replaces by now
isoformat(t) == <<"iso", t>>
fromisoformat(str) == IF str[1] = "iso" THEN str[2] ELSE "now"

\* MonitoringSession(station_id, user_id, interval_minutes, metadata) as the
\* item save_monitoring_session writes: active, no end, start_time now
NewSession(st, iv) ==
    [station_id |-> st, user_id |-> "u1", interval_minutes |-> iv,
     start_time |-> isoformat("t0"), active |-> TRUE,
     end_time |-> NoneV, captures |-> <<>>, metadata |-> CreateMeta]

\* MonitoringSession.from_dict(item) followed by to_dict(): what
\* update_monitoring_session writes for a session read from the table
rewritten(item) ==
    [item EXCEPT !.start_time = isoformat(fromisoformat(@))]

\* get_session_by_id(station_id, session_id): the key of the item under
\* STATION#station_id / SESSION#session_id, 0 when there is none (None)
get_session_by_id(st, sid) ==
    IF sid \in DOMAIN sessions /\ sessions[sid].station_id = st
    THEN sid ELSE 0

\* the items a query on STATION#station_id with filter active = true returns
ActiveSessions(st) ==
    {sid \in DOMAIN sessions :
        sessions[sid].station_id = st /\ sessions[sid].active}

\* how a call ended; cid is the capture id and args the optional arguments
\* of the calls that have them; failed tells that a table operation of the
\* call raised
SessRet(op, sid, ret) ==
    [op |-> op, sid |-> sid, ret |-> ret, cid |-> 0, args |-> <<>>,
     failed |-> FALSE]

\* how a call ended in which a table operation raised
SessFail(op, sid, ret) == [SessRet(op, sid, ret) EXCEPT !.failed = TRUE]

\* create_session(station_id, user_id, interval_minutes, metadata);
\* e is items[0] of get_active_session_by_station (0: no item)
create_session_upto(n, st, iv, e, F) ==
    /\ sessCount < n
    /\ IF ActiveSessions(st) = {} THEN e = 0 ELSE e \in ActiveSessions(st)
    /\ LET new == sessCount + 1
           closed == IF e = 0 THEN sessions
                     ELSE [sessions EXCEPT
                             ![e] = [rewritten(@) EXCEPT !.active = FALSE,
                                                         !.end_time = "now"]]
       IN
       IF "query" \in F
          \/ (e # 0 /\ ("upd_get" \in F \/ "upd_put" \in F))
       THEN /\ sessRet' = SessFail("create", 0, "raise")
            /\ UNCHANGED <<sessions, sessCount>>
       ELSE IF "put" \in F
       THEN /\ sessions' = closed
            /\ sessCount' = new
            /\ sessRet' = SessFail("create", 0, "raise")
       ELSE /\ sessions' = Put(closed, new, NewSession(st, iv))
            /\ sessCount' = new
            /\ sessRet' = SessRet("create", new, "ok")
    /\ UNCHANGED <<captures, capCount>>

create_session(st, iv, e, F) == create_session_upto(MaxSessions, st, iv, e, F)

\* update_session that stamps end_time whenever active=False is given
update_session_value_always_stamps(old, iv, act, md, now) ==
    [rewritten(old) EXCEPT
        !.interval_minutes = IF iv = NoInterval THEN @ ELSE iv,
        !.end_time = IF act = "false" THEN now ELSE @,
        !.active = IF act = NoneV THEN @ ELSE (act = "true"),
        !.metadata = MetaUpdate(@, md)]

\* the fields update_session overwrites (lines 56-65); iv = NoInterval,
\* act = NoneV and md = {} stand for arguments left at None; now is what
\* datetime.now() returns
update_session_value(old, iv, act, md, now) ==
    [rewritten(old) EXCEPT
        !.interval_minutes = IF iv = NoInterval THEN @ ELSE iv,
        !.end_time = IF act = "false" /\ old.active THEN now ELSE @,
        !.active = IF act = NoneV THEN @ ELSE (act = "true"),
        !.metadata = MetaUpdate(@, md)]

\* update_session(session_id, station_id, interval_minutes, active, metadata)
update_session(sid, st, iv, act, md, now, F) ==
    /\ LET Ret(ret) ==
              [SessRet("update", sid, ret) EXCEPT
                  !.args = <<st, iv, act, md>>,
                  !.failed = (ret = "raise")]
       IN
       IF "get" \in F
       THEN /\ sessRet' = Ret("raise")
            /\ UNCHANGED sessions
       ELSE IF get_session_by_id(st, sid) = 0
       THEN /\ sessRet' = Ret("none")
            /\ UNCHANGED sessions
       ELSE IF "upd_get" \in F \/ "upd_put" \in F
       THEN /\ sessRet' = Ret("raise")
            /\ UNCHANGED sessions
       ELSE /\ sessions' = [sessions EXCEPT
                              ![sid] = update_session_value(@, iv, act, md, now)]
            /\ sessRet' = Ret("ok")
    /\ UNCHANGED <<captures, sessCount, capCount>>

\* stop_session(station_id, session_id): every exception becomes False
stop_session(st, sid, F) ==
    /\ IF "get" \in F
       THEN /\ sessRet' = SessFail("stop", sid, "false")
            /\ UNCHANGED sessions
       ELSE IF get_session_by_id(st, sid) = 0
       THEN /\ sessRet' = SessRet("stop", sid, "false")
            /\ UNCHANGED sessions
       ELSE IF "upd_get" \in F \/ "upd_put" \in F
       THEN /\ sessRet' = SessFail("stop", sid, "false")
            /\ UNCHANGED sessions
       ELSE /\ sessions' = [sessions EXCEPT
                              ![sid] = [rewritten(@) EXCEPT
                                          !.active = FALSE,
                                          !.end_time = "now"]]
            /\ sessRet' = SessRet("stop", sid, "true")
    /\ UNCHANGED <<captures, sessCount, capCount>>

\* _update_session_captures(station_id, session_id, capture_id) on the
\* session items: append the id when absent and write the session back;
\* any exception is swallowed there and leaves the items as they are
update_session_captures(ss, st, sid, cid, F) ==
    IF "upd_get" \in F \/ "upd_put" \in F THEN ss
    ELSE IF ~(sid \in DOMAIN ss /\ ss[sid].station_id = st) THEN ss
    ELSE IF \E i \in 1..Len(ss[sid].captures) : ss[sid].captures[i] = cid
    THEN ss
    ELSE [ss EXCEPT ![sid] = [rewritten(@) EXCEPT
                                !.captures = Append(@, cid)]]

\* record_capture(station_id, session_id, image_id, image_url, metadata)
record_capture(st, sid, F) ==
    /\ capCount < MaxCaptures
    /\ IF "get" \in F
       THEN /\ sessRet' = SessFail("record", sid, "raise")
            /\ UNCHANGED <<sessions, captures, capCount>>
       ELSE IF get_session_by_id(st, sid) = 0
       THEN /\ sessRet' = SessRet("record", sid, "notfound")
            /\ UNCHANGED <<sessions, captures, capCount>>
       ELSE LET cid == capCount + 1 IN
            /\ capCount' = cid
            /\ sessions' = update_session_captures(sessions, st, sid, cid, F)
            /\ IF "put" \in F
               THEN /\ sessRet' = SessFail("record", sid, "raise")
                    /\ UNCHANGED captures
               ELSE /\ captures' = Put(captures, cid,
                          [session_id |-> sid, status |-> "captured",
                           result_ids |-> {}, metadata |-> {}])
                    /\ sessRet' = IF "upd_get" \in F \/ "upd_put" \in F
                                  THEN SessFail("record", sid, "ok")
                                  ELSE SessRet("record", sid, "ok")
    /\ UNCHANGED sessCount

\* the statuses, result ids and metadata update_capture_status is given
CaptureStatuses == {"processed"}
ResultIdArgs == {{}, {"r1"}}
CaptureMetaArgs == {{}, {<<"a", 2>>}}

\* get_capture_results(session_id): the CAPTURE_RESULT items under
\* SESSION#session_id
get_capture_results(sid) ==
    {c \in DOMAIN captures : captures[c].session_id = sid}

\* update_capture_status(session_id, capture_id, status, result_ids,
\* metadata): every exception becomes None; the session is looked up under
\* station_id None
update_capture_status(sid, cid, st, rids, md, F) ==
    /\ LET Ret(ret) ==
              [SessRet("update_capture", sid, ret) EXCEPT !.cid = cid]
           Fail(ret) == [Ret(ret) EXCEPT !.failed = TRUE]
           target == [captures[cid] EXCEPT
                        !.status = st,
                        !.result_ids = @ \cup rids,
                        !.metadata = MetaUpdate(@, md)]
           station == get_session_by_id(NoneV, sid)
       IN
       IF "query" \in F
       THEN /\ sessRet' = Fail("none")
            /\ UNCHANGED <<sessions, captures>>
       ELSE IF cid \notin get_capture_results(sid)
       THEN /\ sessRet' = Ret("none")
            /\ UNCHANGED <<sessions, captures>>
       ELSE IF "get" \in F
       THEN /\ sessRet' = Fail("none")
            /\ UNCHANGED <<sessions, captures>>
       ELSE IF station = 0
       THEN /\ sessRet' = Ret("none")
            /\ UNCHANGED <<sessions, captures>>
       ELSE /\ sessions' = update_session_captures(
                               sessions, sessions[station].station_id, sid,
                               cid, F)
            /\ IF "put" \in F
               THEN /\ sessRet' = Fail("none")
                    /\ UNCHANGED captures
               ELSE /\ captures' = Put(captures, cid, target)
                    /\ sessRet' = Ret("ok")
    /\ UNCHANGED <<sessCount, capCount>>

\* ------------------------------------ session calls that interleave
\* Each call is a coroutine that is suspended at every table operation
\* (query_items, get_item, put_item); between two of them it runs alone.
ProcIds == 1..MaxProcs
RaceStations == {"st1"}

\* a caller that has no call under way; session is the MonitoringSession
\* object the call holds (<<>>: none), sid and cid the ids it works on
IdleProc ==
    [op |-> "idle", pc |-> "idle", st |-> NoneV, sid |-> 0, cid |-> 0,
     session |-> <<>>]

Calling(op) == {p \in ProcIds : procs[p].op = op}

\* create_session(station_id, ...) is called
call_create_session(p, st) ==
    /\ procs[p].op = "idle"
    /\ sessCount + Cardinality(Calling("create")) < MaxSessions
    /\ procs' = [procs EXCEPT ![p] = [IdleProc EXCEPT !.op = "create",
                                                      !.pc = "query",
                                                      !.st = st]]
    /\ UNCHANGED <<sessions, captures, sessCount, capCount, deactivated>>

\* line 20: get_active_session_by_station answers with e, the first item
\* of the query (0: no item); lines 22-24 end the session object
create_session_query(p, e) ==
    /\ procs[p].op = "create" /\ procs[p].pc = "query"
    /\ IF ActiveSessions(procs[p].st) = {} THEN e = 0
       ELSE e \in ActiveSessions(procs[p].st)
    /\ procs' = [procs EXCEPT
                   ![p] = IF e = 0 THEN [@ EXCEPT !.pc = "put_new"]
                          ELSE [@ EXCEPT
                                  !.pc = "upd_get", !.sid = e,
                                  !.session =
                                      <<[sessions[e] EXCEPT
                                           !.active = FALSE,
                                           !.end_time = "now"]>>]]
    /\ UNCHANGED <<sessions, captures, sessCount, capCount, deactivated>>

\* line 32: save_monitoring_session(session) puts the new session
create_session_put(p) ==
    /\ procs[p].op = "create" /\ procs[p].pc = "put_new"
    /\ sessCount' = sessCount + 1
    /\ sessions' = Put(sessions, sessCount + 1,
                       NewSession(procs[p].st, 5))
    /\ procs' = [procs EXCEPT ![p] = IdleProc]
    /\ UNCHANGED <<captures, capCount, deactivated>>

\* update_monitoring_session(session), line 32: get_item on the session's
\* key; the item is put whether or not one was found
update_monitoring_session_get(p) ==
    /\ procs[p].pc = "upd_get"
    /\ procs' = [procs EXCEPT ![p].pc = "upd_put"]
    /\ UNCHANGED <<sessions, captures, sessCount, capCount, deactivated>>

\* update_monitoring_session(session), line 44: put_item of the whole
\* session object; then the caller goes on
update_monitoring_session_put(p) ==
    /\ procs[p].pc = "upd_put"
    /\ sessions' = Put(sessions, procs[p].sid, rewritten(procs[p].session[1]))
    /\ deactivated' = IF procs[p].op \in {"create", "stop"}
                      THEN deactivated \cup {procs[p].sid}
                      ELSE deactivated
    /\ procs' = [procs EXCEPT
                   ![p] = IF procs[p].op = "create"
                          THEN [@ EXCEPT !.pc = "put_new"]
                          ELSE IF procs[p].op = "record"
                          THEN [@ EXCEPT !.pc = "put_capture"]
                          ELSE IdleProc]
    /\ UNCHANGED <<captures, sessCount, capCount>>

\* stop_session(station_id, session_id) is called
call_stop_session(p, st, sid) ==
    /\ procs[p].op = "idle"
    /\ procs' = [procs EXCEPT ![p] = [IdleProc EXCEPT !.op = "stop",
                                                      !.pc = "get",
                                                      !.st = st, !.sid = sid]]
    /\ UNCHANGED <<sessions, captures, sessCount, capCount, deactivated>>

\* stop_session lines 92-98: the session is read; none ends the call
stop_session_get(p) ==
    /\ procs[p].op = "stop" /\ procs[p].pc = "get"
    /\ LET found == get_session_by_id(procs[p].st, procs[p].sid) IN
       procs' = [procs EXCEPT
                   ![p] = IF found = 0 THEN IdleProc
                          ELSE [@ EXCEPT
                                  !.pc = "upd_get",
                                  !.session =
                                      <<[sessions[found] EXCEPT
                                           !.active = FALSE,
                                           !.end_time = "now"]>>]]
    /\ UNCHANGED <<sessions, captures, sessCount, capCount, deactivated>>

\* record_capture(station_id, session_id, ...) is called
call_record_capture(p, st, sid) ==
    /\ procs[p].op = "idle"
    /\ capCount + Cardinality(Calling("record")) < MaxRaceCaptures
    /\ procs' = [procs EXCEPT ![p] = [IdleProc EXCEPT !.op = "record",
                                                      !.pc = "get",
                                                      !.st = st, !.sid = sid]]
    /\ UNCHANGED <<sessions, captures, sessCount, capCount, deactivated>>

\* record_capture lines 72-80: the session is read; none raises
\* ValueError, otherwise the CaptureResult is built with a new capture_id
record_capture_get(p) ==
    /\ procs[p].op = "record" /\ procs[p].pc = "get" /\ procs[p].cid = 0
    /\ IF get_session_by_id(procs[p].st, procs[p].sid) = 0
       THEN /\ procs' = [procs EXCEPT ![p] = IdleProc]
            /\ UNCHANGED capCount
       ELSE /\ capCount' = capCount + 1
            /\ procs' = [procs EXCEPT ![p].pc = "list_get",
                                      ![p].cid = capCount + 1]
    /\ UNCHANGED <<sessions, captures, sessCount, deactivated>>

\* _update_session_captures lines 148-155: the session is read again and
\* the capture id appended to the list of the object that was read
update_session_captures_get(p) ==
    /\ procs[p].op = "record" /\ procs[p].pc = "list_get"
    /\ LET found == get_session_by_id(procs[p].st, procs[p].sid)
           listed == found # 0 /\ InSeq(sessions[found].captures, procs[p].cid)
       IN procs' = [procs EXCEPT
                     ![p] = IF found = 0 \/ listed
                            THEN [@ EXCEPT !.pc = "put_capture"]
                            ELSE [@ EXCEPT
                                    !.pc = "upd_get",
                                    !.session =
                                        <<[sessions[found] EXCEPT
                                             !.captures =
                                                 Append(@, procs[p].cid)]>>]]
    /\ UNCHANGED <<sessions, captures, sessCount, capCount, deactivated>>

\* save_capture_result line 63: the capture item is put and record_capture
\* returns the CaptureResult
save_capture_result_put(p) ==
    /\ procs[p].op = "record" /\ procs[p].pc = "put_capture"
    /\ captures' = Put(captures, procs[p].cid,
                       [session_id |-> procs[p].sid, status |-> "captured",
                        result_ids |-> {}, metadata |-> {}])
    /\ procs' = [procs EXCEPT ![p] = IdleProc]
    /\ UNCHANGED <<sessions, sessCount, capCount, deactivated>>

NextRace ==
    \/ \E p \in ProcIds, st \in RaceStations :
          call_create_session(p, st) /\ RaceFrame
    \/ \E p \in ProcIds, e \in {0} \cup SessionIds :
          create_session_query(p, e) /\ RaceFrame
    \/ \E p \in ProcIds : create_session_put(p) /\ RaceFrame
    \/ \E p \in ProcIds : update_monitoring_session_get(p) /\ RaceFrame
    \/ \E p \in ProcIds : update_monitoring_session_put(p) /\ RaceFrame
    \/ \E p \in ProcIds, st \in RaceStations, sid \in SessionIds :
          call_stop_session(p, st, sid) /\ RaceFrame
    \/ \E p \in ProcIds : stop_session_get(p) /\ RaceFrame
    \/ \E p \in ProcIds, st \in RaceStations, sid \in SessionIds :
          call_record_capture(p, st, sid) /\ RaceFrame
    \/ \E p \in ProcIds : record_capture_get(p) /\ RaceFrame
    \/ \E p \in ProcIds : update_session_captures_get(p) /\ RaceFrame
    \/ \E p \in ProcIds : save_capture_result_put(p) /\ RaceFrame

InitSess ==
    /\ sessions = <<>>
    /\ captures = <<>>
    /\ sessCount = 0
    /\ capCount = 0
    /\ sessRet = SessRet("init", 0, "ok")
    /\ procs = [p \in ProcIds |-> IdleProc]
    /\ deactivated = {}

NextSess ==
    \/ \E st \in Stations, iv \in Intervals, e \in {0} \cup SessionIds,
          F \in SUBSET {"query", "upd_get", "upd_put", "put"} :
          create_session(st, iv, e, F) /\ SessFrame
    \/ \E sid \in SessionIds, st \in Stations, iv \in {NoInterval} \cup Intervals,
          act \in {NoneV, "true", "false"}, F \in SUBSET {"get", "upd_get", "upd_put"} :
          update_session(sid, st, iv, act, {}, "now", F) /\ SessFrame
    \/ \E sid \in SessionIds, st \in Stations,
          F \in SUBSET {"get", "upd_get", "upd_put"} :
          stop_session(st, sid, F) /\ SessFrame
    \/ \E sid \in SessionIds, st \in Stations,
          F \in SUBSET {"get", "upd_get", "upd_put", "put"} :
          record_capture(st, sid, F) /\ SessFrame
    \/ \E sid \in SessionIds, cid \in CaptureIds, st \in CaptureStatuses,
          rids \in ResultIdArgs, md \in CaptureMetaArgs,
          F \in SUBSET {"query", "get"} :
          update_capture_status(sid, cid, st, rids, md, F) /\ SessFrame

\* sessions that are created, get captures and are updated with every
\* combination of optional arguments
UpdatedIds == 1..MaxUpdated
UpdateStations == {"st1"}
UpdateIntervals == {NoInterval, 10}
Nows == {"now", "later"}

NextUpdateSession ==
    \/ \E st \in UpdateStations, iv \in Intervals, e \in {0} \cup UpdatedIds :
          create_session_upto(MaxUpdated, st, iv, e, {}) /\ SessFrame
    \/ \E sid \in UpdatedIds, st \in UpdateStations :
          record_capture(st, sid, {}) /\ SessFrame
    \/ \E sid \in UpdatedIds, st \in UpdateStations, iv \in UpdateIntervals,
          act \in {NoneV, "true", "false"}, md \in {{}, UpdateMeta},
          now \in Nows, F \in {{}, {"get"}, {"upd_put"}} :
          update_session(sid, st, iv, act, md, now, F) /\ SessFrame

\* ------------------------------------------------- combined processing
\* confidences and maturation_threshold in tenths (0.6 is 6)
Thresholds == {6, 9}
DetectionLists == {<<>>, <<5>>, <<6>>, <<5, 9>>}

\* a ProcessingResult that does not exist (None)
NoResult == [status |-> "none", results |-> <<>>, error_message |-> NoneV]

\* ProcessingResult(results, status, error_message)
ProcessingResult(st, rs, msg) ==
    [status |-> st, results |-> rs, error_message |-> msg]

\* what detect_objects can return: an error result without detections, a
\* success result with any list of detections, or the detections under
\* whatever other status the service answered
DetectOutcomes ==
    {ProcessingResult("error", <<>>, "detect failed"),
     ProcessingResult("partial", <<6>>, NoneV)}
    \cup {ProcessingResult("success", rs, NoneV) : rs \in DetectionLists}

\* the status_data start_processing writes
InitialStatus ==
    [status |-> "queued", progress |-> 0, image_id |-> 0,
     detection_complete |-> FALSE, maturation_complete |-> FALSE,
     combined_id |-> 0, error |-> NoneV]

\* a return value: None, a raised exception, or a value
ReturnNone == [kind |-> "none", value |-> <<>>]
ReturnRaise == [kind |-> "raise", value |-> <<>>]
ReturnValue(v) == [kind |-> "value", value |-> v]

\* the locals of an execution that has not been called
IdleRun ==
    [request_id |-> 0, mode |-> "none", pc |-> "idle", skip_maturation |-> FALSE,
     maturation_threshold |-> 6, image |-> 0, detection_result |-> NoResult,
     maturation_result |-> NoResult, combined_id |-> 0, exc |-> NoneV,
     maturation_response |-> NoneV,
     returned |-> ReturnNone]

\* the request id of the run that is followed: the one the last
\* start_processing minted (0: none was minted)
RunId == run.request_id

\* [r for r in results if r.confidence >= maturation_threshold]
RECURSIVE valid_objects(_, _)
valid_objects(rs, thr) ==
    IF rs = <<>> THEN <<>>
    ELSE IF Head(rs) >= thr
         THEN <<Head(rs)>> \o valid_objects(Tail(rs), thr)
         ELSE valid_objects(Tail(rs), thr)

\* CombinedResult.__init__ merging the detection results when the
\* maturation result is not a success
CombinedResult_merges_on_success(cid, image, det, mat) ==
    [combined_id |-> cid, image_id |-> image,
     detection_result |-> det, maturation_result |-> mat,
     detection |-> det.status, maturation |-> mat.status,
     status |-> IF mat # NoResult /\ mat.status = "success" THEN "completed"
                ELSE IF det.status = "success" THEN "detection_completed"
                ELSE "error",
     results |-> IF mat = NoResult \/ mat.status # "success"
                 THEN det.results ELSE mat.results]

\* CombinedResult.__init__: the derived status and the merged results
CombinedResult(cid, image, det, mat) ==
    [combined_id |-> cid, image_id |-> image,
     detection_result |-> det, maturation_result |-> mat,
     detection |-> det.status, maturation |-> mat.status,
     status |-> IF mat # NoResult /\ mat.status = "success" THEN "completed"
                ELSE IF det.status = "success" THEN "detection_completed"
                ELSE "error",
     results |-> IF mat = NoResult THEN det.results ELSE mat.results]

\* status_data.update(kwargs)
MergeStatus(rec, kw) ==
    [f \in DOMAIN rec |-> IF f \in DOMAIN kw THEN kw[f] ELSE rec[f]]

\* the except branch writing progress 0.0 instead of 1.0
StatusUpdate_error_resets(pc) ==
    IF pc = "upd_processing" THEN [status |-> "processing", progress |-> 10]
    ELSE IF pc = "upd_image" THEN [image_id |-> run.image, progress |-> 20]
    ELSE IF pc = "upd_detecting" THEN [status |-> "detecting", progress |-> 30]
    ELSE IF pc = "upd_detection_complete"
    THEN [detection_complete |-> TRUE, progress |-> 50,
          status |-> IF run.skip_maturation THEN "detection_complete"
                     ELSE "detecting_maturation"]
    ELSE IF pc = "upd_completed_detection_only"
    THEN [status |-> "completed", progress |-> 100,
          combined_id |-> run.combined_id,
          error |-> run.detection_result.error_message]
    ELSE IF pc = "upd_maturation" THEN [progress |-> 60]
    ELSE IF pc = "upd_maturation_complete"
    THEN [maturation_complete |-> TRUE, progress |-> 80]
    ELSE IF pc = "upd_completed"
    THEN [status |-> "completed", progress |-> 100,
          combined_id |-> run.combined_id]
    ELSE [status |-> "error", progress |-> 0, error |-> run.exc]

\* the keyword arguments of each _update_processing_status call of
\* execute_in_background, by the place of the call
StatusUpdate(pc) ==
    IF pc = "upd_processing" THEN [status |-> "processing", progress |-> 10]
    ELSE IF pc = "upd_image" THEN [image_id |-> run.image, progress |-> 20]
    ELSE IF pc = "upd_detecting" THEN [status |-> "detecting", progress |-> 30]
    ELSE IF pc = "upd_detection_complete"
    THEN [detection_complete |-> TRUE, progress |-> 50,
          status |-> IF run.skip_maturation THEN "detection_complete"
                     ELSE "detecting_maturation"]
    ELSE IF pc = "upd_completed_detection_only"
    THEN [status |-> "completed", progress |-> 100,
          combined_id |-> run.combined_id,
          error |-> run.detection_result.error_message]
    ELSE IF pc = "upd_maturation" THEN [progress |-> 60]
    ELSE IF pc = "upd_maturation_complete"
    THEN [maturation_complete |-> TRUE, progress |-> 80]
    ELSE IF pc = "upd_completed"
    THEN [status |-> "completed", progress |-> 100,
          combined_id |-> run.combined_id]
    ELSE [status |-> "error", progress |-> 100, error |-> run.exc]

UpdatePcs ==
    {"upd_processing", "upd_image", "upd_detecting", "upd_detection_complete",
     "upd_completed_detection_only", "upd_maturation",
     "upd_maturation_complete", "upd_completed", "upd_error"}

\* the branch taken with skip_maturation ignored
maturation_wanted_ignoring_skip(skip, rs, thr) == valid_objects(rs, thr) # <<>>

\* lines 113-116: maturation is analysed when it is not skipped and some
\* detection passes the threshold
maturation_wanted(skip, rs, thr) ==
    ~skip /\ rs # <<>> /\ valid_objects(rs, thr) # <<>>

\* line 94: detection failed or found nothing
detection_only(det) == det.status # "success" \/ det.results = <<>>

\* the except branch entered after the completed status was written
AfterStep_error_after_completed(pc) ==
    LET bg == run.mode = "bg"
        det == run.detection_result
        branch ==
            IF detection_only(det)
            THEN (IF bg THEN "save_combined_detection_only" ELSE "returned")
            ELSE IF maturation_wanted(run.skip_maturation, det.results,
                                      run.maturation_threshold)
            THEN (IF bg THEN "upd_maturation" ELSE "maturation")
            ELSE "save_combined"
    IN
    IF pc = "upd_processing" THEN "save_image_metadata"
    ELSE IF pc = "save_image_metadata"
    THEN (IF bg THEN "upd_image" ELSE "detect")
    ELSE IF pc = "upd_image" THEN "upd_detecting"
    ELSE IF pc = "upd_detecting" THEN "detect"
    ELSE IF pc = "detect" THEN "save_detection"
    ELSE IF pc = "save_detection"
    THEN (IF bg THEN "upd_detection_complete" ELSE branch)
    ELSE IF pc = "upd_detection_complete" THEN branch
    ELSE IF pc = "save_combined_detection_only"
    THEN "upd_completed_detection_only"
    ELSE IF pc = "upd_completed_detection_only" THEN "done"
    ELSE IF pc = "upd_maturation" THEN "maturation"
    ELSE IF pc = "maturation" THEN "save_maturation"
    ELSE IF pc = "save_maturation"
    THEN (IF bg THEN "upd_maturation_complete" ELSE "save_combined")
    ELSE IF pc = "upd_maturation_complete" THEN "save_combined"
    ELSE IF pc = "save_combined"
    THEN (IF bg THEN "upd_completed" ELSE "returned")
    ELSE IF pc = "upd_completed" THEN "upd_error"
    ELSE "done"

\* the statement that follows each step of execute_in_background and of
\* execute (which makes no status update and saves no detection-only
\* combined result)
AfterStep(pc) ==
    LET bg == run.mode = "bg"
        det == run.detection_result
        branch ==
            IF detection_only(det)
            THEN (IF bg THEN "save_combined_detection_only" ELSE "returned")
            ELSE IF maturation_wanted(run.skip_maturation, det.results,
                                      run.maturation_threshold)
            THEN (IF bg THEN "upd_maturation" ELSE "maturation")
            ELSE "save_combined"
    IN
    IF pc = "upd_processing" THEN "save_image_metadata"
    ELSE IF pc = "save_image_metadata"
    THEN (IF bg THEN "upd_image" ELSE "detect")
    ELSE IF pc = "upd_image" THEN "upd_detecting"
    ELSE IF pc = "upd_detecting" THEN "detect"
    ELSE IF pc = "detect" THEN "save_detection"
    ELSE IF pc = "save_detection"
    THEN (IF bg THEN "upd_detection_complete" ELSE branch)
    ELSE IF pc = "upd_detection_complete" THEN branch
    ELSE IF pc = "save_combined_detection_only"
    THEN "upd_completed_detection_only"
    ELSE IF pc = "upd_completed_detection_only" THEN "done"
    ELSE IF pc = "upd_maturation" THEN "maturation"
    ELSE IF pc = "maturation" THEN "save_maturation"
    ELSE IF pc = "save_maturation"
    THEN (IF bg THEN "upd_maturation_complete" ELSE "save_combined")
    ELSE IF pc = "upd_maturation_complete" THEN "save_combined"
    ELSE IF pc = "save_combined"
    THEN (IF bg THEN "upd_completed" ELSE "returned")
    ELSE IF pc = "upd_completed" THEN "done"
    ELSE "done"

\* the except branch of execute raising again whether or not image exists
Raise_reraises(r, msg) ==
    [r EXCEPT !.exc = msg,
              !.pc = IF r.mode = "bg" THEN "upd_error" ELSE "raised"]

\* an except branch that calls the detection again after a failure
Raise_retries(r, msg) ==
    [r EXCEPT !.exc = msg,
              !.pc = IF r.mode = "bg" /\ r.pc # "detect" THEN "detect"
                     ELSE IF r.image # 0 THEN "returned" ELSE "raised"]

\* an exception raised at a step: execute_in_background goes to its except
\* branch; execute returns an error result when image exists, else re-raises
Raise(r, msg) ==
    [r EXCEPT !.exc = msg,
              !.pc = IF r.mode = "bg" THEN "upd_error"
                     ELSE IF r.image # 0 THEN "returned" ELSE "raised"]

\* the ProcessingResult execute puts in the CombinedResult it returns from
\* its except branch: error_message is f"Erro interno: {str(e)}"
ErrorResult(exc) == ProcessingResult("error", <<>>, <<"Erro interno: ", exc>>)

\* execute returning: r is the run after the step, base the number of ids
\* minted so far. The except branch and the detection-only return build a
\* new CombinedResult (a new combined_id); the normal return gives back the
\* one that was saved.
NewOnReturn(r) ==
    r.mode = "sync" /\ r.pc = "returned" /\ (r.exc # NoneV \/ r.combined_id = 0)

Return(r, base) ==
    IF r.mode = "sync" /\ r.pc = "returned"
    THEN [r EXCEPT !.returned =
            ReturnValue(
                       IF r.exc # NoneV
                       THEN CombinedResult(base + 1, r.image,
                                           ErrorResult(r.exc), NoResult)
                       ELSE IF r.combined_id = 0
                       THEN CombinedResult(base + 1, r.image,
                                           r.detection_result, NoResult)
                       ELSE CombinedResult(r.combined_id, r.image,
                                           r.detection_result,
                                           r.maturation_result))]
    ELSE r

Minted(r, base) == IF NewOnReturn(r) THEN base + 1 ELSE base

\* start_processing reporting a failed status write as a started run
start_processing_masks_failure(ok) ==
    /\ run.mode \in {"none", "start"}
    /\ uuidCount < MaxStarts
    /\ LET rid == uuidCount + 1 IN
       /\ uuidCount' = rid
       /\ status' = IF ok THEN Put(status, rid, InitialStatus) ELSE status
       /\ run' = [run EXCEPT !.request_id = rid, !.mode = "start",
                             !.pc = "queued", !.exc = NoneV]
    /\ UNCHANGED <<items, calls, reply>>

\* start_processing: mints request_id with uuid4(), writes the queued
\* status item under it and returns it, or raises when the write fails; it
\* can be called again before any execution is started
start_processing(ok) ==
    /\ run.mode \in {"none", "start"}
    /\ uuidCount < MaxStarts
    /\ LET rid == uuidCount + 1 IN
       /\ uuidCount' = rid
       /\ IF ok
          THEN /\ status' = Put(status, rid, InitialStatus)
               /\ run' = [run EXCEPT !.request_id = rid, !.mode = "start",
                                     !.pc = "queued", !.exc = NoneV]
          ELSE /\ run' = [run EXCEPT !.mode = "start", !.pc = "raised",
                                     !.exc = "status write failed"]
               /\ UNCHANGED status
    /\ UNCHANGED <<items, calls, reply>>

\* execute_in_background(request_id, ..., maturation_threshold,
\* skip_maturation) is called, for the id start_processing returned or for
\* an id that has no status item
execute_in_background(skip, thr) ==
    /\ run.pc \in {"idle", "queued"}
    /\ run' = [run EXCEPT !.mode = "bg", !.pc = "check",
                          !.skip_maturation = skip,
                          !.maturation_threshold = thr]
    /\ UNCHANGED <<status, items, calls, uuidCount, reply>>

\* execute(image_url, user_id, ..., maturation_threshold, skip_maturation)
execute(skip, thr) ==
    /\ run.pc = "idle"
    /\ run' = [run EXCEPT !.mode = "sync", !.pc = "save_image_metadata",
                          !.skip_maturation = skip,
                          !.maturation_threshold = thr]
    /\ UNCHANGED <<status, items, calls, uuidCount, reply>>

\* an execution that goes on whatever the read of the status item gave
check_status_proceeds(ok) ==
    /\ run.pc = "check"
    /\ run' = [run EXCEPT !.pc = "upd_processing"]
    /\ UNCHANGED <<status, items, calls, uuidCount, reply>>

\* lines 71-74: the status item is read; missing (or unreadable, which
\* _get_processing_status_data turns into None) ends the execution
check_status(ok) ==
    /\ run.pc = "check"
    /\ run' = [run EXCEPT !.pc = IF ok /\ RunId \in DOMAIN status
                                 THEN "upd_processing" ELSE "done"]
    /\ UNCHANGED <<status, items, calls, uuidCount, reply>>

\* _update_processing_status(request_id, **kwargs): read, merge, write;
\* a failed read or write is logged and swallowed (ok = FALSE)
update_processing_status(ok) ==
    /\ run.pc \in UpdatePcs
    /\ status' = IF ok /\ RunId \in DOMAIN status
                 THEN [status EXCEPT
                         ![RunId] = MergeStatus(@, StatusUpdate(run.pc))]
                 ELSE status
    /\ run' = [run EXCEPT !.pc = AfterStep(run.pc)]
    /\ UNCHANGED <<items, calls, uuidCount, reply>>

\* Image(image_url, user_id, metadata) gives an image with a new image_id,
\* or raises
ImageOutcomes == {"built", "raise"}

\* image = Image(image_url, user_id, metadata) and
\* save_image_metadata(image)
save_image_metadata(built, ok) ==
    /\ run.pc = "save_image_metadata"
    /\ IF built = "raise"
       THEN /\ run' = Raise(run, "image construction failed")
            /\ UNCHANGED <<items, uuidCount>>
       ELSE LET img == uuidCount + 1
                r1 == [run EXCEPT !.image = img]
                r2 == IF ok THEN [r1 EXCEPT !.pc = AfterStep(run.pc)]
                      ELSE Raise(r1, "metadata write failed")
            IN /\ items' = IF ok THEN Put(items, <<img, "META">>,
                                          [entity_type |-> "IMAGE"])
                           ELSE items
               /\ run' = Return(r2, img)
               /\ uuidCount' = Minted(r2, img)
    /\ UNCHANGED <<status, calls, reply>>

\* detect_objects(image): never raises, errors come back as a result
detect_objects(res) ==
    /\ run.pc = "detect"
    /\ calls' = Append(calls, [op |-> "detect", boxes |-> <<>>])
    /\ run' = [run EXCEPT !.detection_result = res, !.pc = AfterStep(run.pc)]
    /\ UNCHANGED <<status, items, uuidCount, reply>>

\* save_processing_result(detection_result); execute then returns when the
\* detection failed or found nothing
save_detection(ok) ==
    /\ run.pc = "save_detection"
    /\ LET r2 == IF ok THEN [run EXCEPT !.pc = AfterStep(run.pc)]
                 ELSE Raise(run, "detection write failed")
       IN /\ items' = IF ok THEN Put(items, <<run.image, "DETECTION">>,
                                     run.detection_result)
                      ELSE items
          /\ run' = Return(r2, uuidCount)
          /\ uuidCount' = Minted(r2, uuidCount)
    /\ UNCHANGED <<status, calls, reply>>

\* self.ia_repository: the IARepository of the repository, or another
\* IARepositoryInterface handed to the constructor
IARepositories == {"IARepository", "injected"}

\* what the inference service answers to a maturation request: a success
\* response, a response with status error, or no response (the call raises)
MaturationResponses == {"success", "error", "raise"}

\* what analyze_maturation_with_boxes gives its caller. IARepository builds
\* its ProcessingResult with parent_request_id=..., which
\* ProcessingResult.__init__ does not accept: the TypeError of the try
\* block is caught and the except block raises it again, whatever the
\* service answered. Another implementation returns the answer or raises.
maturation_outcome(impl, response) ==
    IF impl = "IARepository" THEN "raise" ELSE response

\* analyze_maturation_with_boxes(image, bounding_boxes, parent_request_id):
\* a success result, an error result, or an exception
analyze_maturation_with_boxes(impl, response) ==
    /\ run.pc = "maturation"
    /\ LET boxes == valid_objects(run.detection_result.results,
                                  run.maturation_threshold)
           outcome == maturation_outcome(impl, response)
           r1 == [run EXCEPT !.maturation_response = response]
           r2 == IF outcome = "raise" THEN Raise(r1, "maturation raised")
                 ELSE [r1 EXCEPT
                         !.maturation_result =
                             IF outcome = "success"
                             THEN ProcessingResult("success", boxes, NoneV)
                             ELSE ProcessingResult("error", <<>>, NoneV),
                         !.pc = AfterStep(run.pc)]
       IN /\ calls' = Append(calls, [op |-> "maturation", boxes |-> boxes])
          /\ run' = Return(r2, uuidCount)
          /\ uuidCount' = Minted(r2, uuidCount)
    /\ UNCHANGED <<status, items, reply>>

\* save_processing_result(maturation_result)
save_maturation(ok) ==
    /\ run.pc = "save_maturation"
    /\ LET r2 == IF ok THEN [run EXCEPT !.pc = AfterStep(run.pc)]
                 ELSE Raise(run, "maturation write failed")
       IN /\ items' = IF ok THEN Put(items, <<run.image, "MATURATION">>,
                                     run.maturation_result)
                      ELSE items
          /\ run' = Return(r2, uuidCount)
          /\ uuidCount' = Minted(r2, uuidCount)
    /\ UNCHANGED <<status, calls, reply>>

\* CombinedResult(...) and save_combined_result(combined_result), on the
\* detection-only path (line 96-100) and on the full path (145-153)
save_combined_result(ok) ==
    /\ run.pc \in {"save_combined_detection_only", "save_combined"}
    /\ LET cid == uuidCount + 1
           comb == CombinedResult(cid, run.image, run.detection_result,
                                  run.maturation_result)
           r1 == [run EXCEPT !.combined_id = cid]
           r2 == IF ok THEN [r1 EXCEPT !.pc = AfterStep(run.pc)]
                 ELSE Raise(r1, "combined write failed")
       IN /\ items' = IF ok THEN Put(items, <<run.image, "COMBINED">>, comb)
                      ELSE items
          /\ run' = Return(r2, cid)
          /\ uuidCount' = Minted(r2, cid)
    /\ UNCHANGED <<status, calls, reply>>

Reply(op, rid, failed, ret) ==
    [op |-> op, rid |-> rid, failed |-> failed, ret |-> ret]

\* the request ids a caller can ask about: the ones minted, and 0 for one
\* that has no status item
KnownOrNot == DOMAIN status \cup {0}

\* _get_processing_status_data(request_id): the item, or None when there
\* is none or when the read raised
get_processing_status_data(rid, ok) ==
    IF ok /\ rid \in DOMAIN status THEN ReturnValue(status[rid]) ELSE ReturnNone

\* CombinedResult.from_dict(item): the body is pass, it returns None
from_dict(item) == ReturnNone

\* DynamoRepository.get_combined_result(image_id)
get_combined_result(image_id, ok) ==
    IF ~ok THEN ReturnRaise
    ELSE IF <<image_id, "COMBINED">> \notin DOMAIN items THEN ReturnNone
    ELSE from_dict(items[<<image_id, "COMBINED">>])

\* get_result_by_request_id(request_id)
get_result_by_request_id(rid, ok_status, ok_item) ==
    /\ LET status_data == get_processing_status_data(rid, ok_status)
           ret == IF status_data = ReturnNone
                     \/ status_data.value.status # "completed"
                  THEN ReturnNone
                  ELSE IF status_data.value.combined_id # 0
                          /\ status_data.value.image_id # 0
                  THEN get_combined_result(status_data.value.image_id, ok_item)
                  ELSE ReturnNone
       IN reply' = Reply("get_result", rid, ~ok_status \/ ret = ReturnRaise, ret)
    /\ UNCHANGED <<status, items, run, calls, uuidCount>>

\* get_processing_status(request_id)
get_processing_status(rid, ok) ==
    /\ LET status_data == get_processing_status_data(rid, ok)
           ret == IF status_data = ReturnNone THEN ReturnNone
                  ELSE ReturnValue([status |-> status_data.value.status,
                                    progress |-> status_data.value.progress])
       IN reply' = Reply("get_status", rid, ~ok, ret)
    /\ UNCHANGED <<status, items, run, calls, uuidCount>>

InitPipe ==
    /\ status = <<>>
    /\ items = <<>>
    /\ run = IdleRun
    /\ calls = <<>>
    /\ uuidCount = 0
    /\ reply = Reply("none", 0, FALSE, ReturnNone)

NextPipe ==
    \/ \E ok \in BOOLEAN : start_processing(ok) /\ PipeFrame
    \/ \E skip \in BOOLEAN, thr \in Thresholds :
          execute_in_background(skip, thr) /\ PipeFrame
    \/ \E skip \in BOOLEAN, thr \in Thresholds : execute(skip, thr) /\ PipeFrame
    \/ \E ok \in BOOLEAN : check_status(ok) /\ PipeFrame
    \/ \E ok \in BOOLEAN : update_processing_status(ok) /\ PipeFrame
    \/ \E built \in ImageOutcomes, ok \in BOOLEAN :
          save_image_metadata(built, ok) /\ PipeFrame
    \/ \E res \in DetectOutcomes : detect_objects(res) /\ PipeFrame
    \/ \E ok \in BOOLEAN : save_detection(ok) /\ PipeFrame
    \/ \E impl \in IARepositories, response \in MaturationResponses :
          analyze_maturation_with_boxes(impl, response) /\ PipeFrame
    \/ \E ok \in BOOLEAN : save_maturation(ok) /\ PipeFrame
    \/ \E ok \in BOOLEAN : save_combined_result(ok) /\ PipeFrame
    \/ \E rid \in KnownOrNot, ok_status \in BOOLEAN, ok_item \in BOOLEAN :
          get_result_by_request_id(rid, ok_status, ok_item) /\ PipeFrame
    \/ \E rid \in KnownOrNot, ok \in BOOLEAN :
          get_processing_status(rid, ok) /\ PipeFrame

\* ----------------------------------------------------- CombinedResult
\* the ProcessingResults a CombinedResult can be built from: any status
\* with any list of detections
AnyResults ==
    {ProcessingResult(st, rs, NoneV) :
        st \in {"success", "error", "partial"}, rs \in DetectionLists}

\* CombinedResult(image_id, user_id, detection_result, maturation_result)
\* is called with the arguments drawn at the start
construct_combined_result ==
    /\ crResult = ReturnNone
    /\ crResult' = ReturnValue(CombinedResult(1, 1, crArgs.detection_result,
                                              crArgs.maturation_result))
    /\ UNCHANGED crArgs

InitEnt ==
    /\ crArgs = [detection_result |-> NoResult, maturation_result |-> NoResult]
    /\ crResult = ReturnNone

InitArgs ==
    /\ crArgs \in [detection_result : AnyResults,
                   maturation_result : AnyResults \cup {NoResult}]
    /\ crResult = ReturnNone

InitCombinedResult == InitConn /\ InitSess /\ InitPipe /\ InitArgs

NextCombinedResult == construct_combined_result /\ EntFrame

Init == InitConn /\ InitSess /\ InitPipe /\ InitEnt

SpecCombinedResult == InitCombinedResult /\ [][NextCombinedResult]_vars

SpecConn == Init /\ [][NextConn]_vars

SpecSend == Init /\ [][NextSend]_vars

SpecBroadcast == Init /\ [][NextBroadcast]_vars

SpecSess == Init /\ [][NextSess]_vars

SpecUpdateSession == Init /\ [][NextUpdateSession]_vars

SpecPipe == Init /\ [][NextPipe]_vars

SpecLoop == Init /\ [][NextLoop]_vars

SpecRace == Init /\ [][NextRace]_vars

\* ------------------------------------------------------ websocket_endpoint
\* where a websocket_endpoint call stands: pc is the await it is suspended
\* at ("receive": receive_json; "reply": the send_json that answers a
\* message; "send_error": the send_json of the except branch; "ended": it
\* has returned), msg the type of the message it is answering, out the type
\* of the message being sent and end the except branch it ended in
Handler(pc, msg, out, end) == [pc |-> pc, msg |-> msg, out |-> out, end |-> end]

\* the handler is suspended in receive_json
Receiving(c) == c \in DOMAIN handlers /\ handlers[c].pc = "receive"

\* the stations capture_response messages name
HandlerStations == {"st1"}

\* websocket_endpoint from its call to the first receive_json:
\* connection_manager.connect(websocket). One call of websocket_endpoint is
\* followed, from its connect to its return: every registry access of a
\* handler is keyed by its own connection_id
websocket_endpoint_connect ==
    /\ handlers = <<>>
    /\ connect
    /\ handlers' = Put(handlers, connCount + 1,
                       Handler("receive", "none", "none", "none"))
    /\ UNCHANGED sessVars

\* a "config" message: WebSocketConfigRequest.model_validate (valid tells
\* whether it accepts the message; a ValidationError goes to the
\* except Exception branch), then configure_websocket, which calls
\* configure_monitoring with is_active=True, up to the send_json of the
\* config_response
websocket_endpoint_config(c, valid, iv) ==
    /\ Receiving(c)
    /\ IF valid
       THEN /\ configure_monitoring(c, iv, "st1", "u1", TRUE)
            /\ handlers' = [handlers EXCEPT
                   ![c] = Handler("reply", "config", "config_response", "none")]
       ELSE /\ handlers' = [handlers EXCEPT
                   ![c] = Handler("send_error", "none", "error", "none")]
            /\ UNCHANGED connVars
    /\ UNCHANGED sessVars

\* a "capture_response" message for station st: get_active_session (e is
\* the item the query returns, 0 for none), then record_capture when there
\* is a session and the message has image_id and image_url (complete), up
\* to the send_json of capture_recorded; an exception of the store goes to
\* the except Exception branch
websocket_endpoint_capture_response(c, st, e, complete, F) ==
    /\ Receiving(c)
    /\ IF ActiveSessions(st) = {} THEN e = 0 ELSE e \in ActiveSessions(st)
    /\ IF "query" \in F
       THEN /\ handlers' = [handlers EXCEPT
                   ![c] = Handler("send_error", "none", "error", "none")]
            /\ UNCHANGED sessVars
       ELSE IF e = 0 \/ ~complete
       THEN /\ handlers' = [handlers EXCEPT
                   ![c] = Handler("reply", "capture_response",
                                  "capture_recorded", "none")]
            /\ UNCHANGED sessVars
       ELSE /\ record_capture(st, e, F)
            /\ handlers' = [handlers EXCEPT
                   ![c] = IF sessRet'.ret = "ok"
                          THEN Handler("reply", "capture_response",
                                       "capture_recorded", "none")
                          ELSE Handler("send_error", "none", "error", "none")]
    /\ UNCHANGED connVars

\* a "start_monitoring" message, up to the send_json of monitoring_status
websocket_endpoint_start_monitoring(c) ==
    /\ Receiving(c)
    /\ start_monitoring(c)
    /\ handlers' = [handlers EXCEPT
           ![c] = Handler("reply", "start_monitoring", "monitoring_status",
                          "none")]
    /\ UNCHANGED sessVars

\* a "stop_monitoring" message, up to the send_json of monitoring_status
websocket_endpoint_stop_monitoring(c) ==
    /\ Receiving(c)
    /\ stop_monitoring(c)
    /\ handlers' = [handlers EXCEPT
           ![c] = Handler("reply", "stop_monitoring", "monitoring_status",
                          "none")]
    /\ UNCHANGED sessVars

\* a message of any other type (the else branch), up to the send_json of
\* the error message
websocket_endpoint_unknown(c) ==
    /\ Receiving(c)
    /\ handlers' = [handlers EXCEPT
           ![c] = Handler("reply", "unknown", "error", "none")]
    /\ UNCHANGED <<connVars, sessVars>>

\* how an await of the transport ends in a handler: it returns ("ok"), it
\* raises WebSocketDisconnect ("disconnect"), which the first except branch
\* answers with disconnect(connection_id), or it raises another Exception
\* ("error"), after which the second except branch sends an error message
Raised(c, r) ==
    IF r = "disconnect"
    THEN /\ disconnect(c)
         /\ handlers' = [handlers EXCEPT
                ![c] = Handler("ended", "none", "none", "disconnect")]
    ELSE /\ handlers' = [handlers EXCEPT
                ![c] = Handler("send_error", "none", "error", "none")]
         /\ UNCHANGED connVars

\* receive_json raises: the client disconnected, or what it sent is not a
\* JSON object
websocket_endpoint_receive_raises(c, r) ==
    /\ Receiving(c)
    /\ Raised(c, r)
    /\ UNCHANGED sessVars

\* the send_json that answers a message ends; the handler goes back to
\* receive_json when it returned
websocket_endpoint_replied(c, r) ==
    /\ c \in DOMAIN handlers
    /\ handlers[c].pc = "reply"
    /\ IF r = "ok"
       THEN /\ handlers' = [handlers EXCEPT
                   ![c] = Handler("receive", "none", "none", "none")]
            /\ UNCHANGED connVars
       ELSE Raised(c, r)
    /\ UNCHANGED sessVars

\* the except Exception branch that returns without disconnect
websocket_endpoint_error_sent_stays(c) ==
    /\ c \in DOMAIN handlers
    /\ handlers[c].pc = "send_error"
    /\ handlers' = [handlers EXCEPT
           ![c] = Handler("ended", "none", "none", "error")]
    /\ UNCHANGED <<connVars, sessVars>>

\* the send_json of the except Exception branch ends, returning or raising
\* (an exception of it is passed over): disconnect(connection_id) and return
websocket_endpoint_error_sent(c) ==
    /\ c \in DOMAIN handlers
    /\ handlers[c].pc = "send_error"
    /\ disconnect(c)
    /\ handlers' = [handlers EXCEPT
           ![c] = Handler("ended", "none", "none", "error")]
    /\ UNCHANGED sessVars

\* the store failures a capture_response meets: none, or one of the query
\* of the active session, the read of the session, the write of the session
\* and the write of the capture item
HandlerFaults == {{}, {"query"}, {"get"}, {"upd_put"}, {"put"}}

NextHandler ==
    \/ websocket_endpoint_connect /\ HandlerFrame
    \/ \E c \in ConnIds, valid \in BOOLEAN, iv \in Intervals :
          websocket_endpoint_config(c, valid, iv) /\ HandlerFrame
    \/ \E c \in ConnIds, st \in HandlerStations, e \in {0} \cup UpdatedIds,
          complete \in BOOLEAN, F \in HandlerFaults :
          websocket_endpoint_capture_response(c, st, e, complete, F)
          /\ HandlerFrame
    \/ \E c \in ConnIds : websocket_endpoint_start_monitoring(c) /\ HandlerFrame
    \/ \E c \in ConnIds : websocket_endpoint_stop_monitoring(c) /\ HandlerFrame
    \/ \E c \in ConnIds : websocket_endpoint_unknown(c) /\ HandlerFrame
    \/ \E c \in ConnIds, r \in {"disconnect", "error"} :
          websocket_endpoint_receive_raises(c, r) /\ HandlerFrame
    \/ \E c \in ConnIds, r \in {"ok", "disconnect", "error"} :
          websocket_endpoint_replied(c, r) /\ HandlerFrame
    \/ \E c \in ConnIds : websocket_endpoint_error_sent(c) /\ HandlerFrame
    \/ \E st \in HandlerStations, e \in {0} \cup UpdatedIds :
          create_session_upto(MaxUpdated, st, 5, e, {}) /\ SessFrame
    \/ \E t \in 1..MaxTasks : monitor_loop_iterate(t) /\ ConnFrame
    \/ \E t \in 1..MaxTasks, sent \in BOOLEAN :
          monitor_loop_sent(t, sent) /\ ConnFrame
    \/ \E t \in 1..MaxTasks : monitor_loop_cancelled(t) /\ ConnFrame

SpecHandler == Init /\ [][NextHandler]_vars

\* ------------------------------------------------------------------ claims

LiveLoops(c) == {t \in DOMAIN tasks : tasks[t].conn = c /\ TaskLive(tasks[t])}

\* C1: for every connection, in every reachable state, at most one monitor
\* loop that can still emit capture requests exists.
C1_AtMostOneLoop == \A c \in ConnIds : Cardinality(LiveLoops(c)) <= 1

\* C1 witness: configure(active=true) has just replaced a loop that an
\* earlier call created and that had not even started, and exactly one
\* live loop remains.
C1_Witness ==
    /\ lastCall.op = "configure" /\ lastCall.ret /\ lastCall.cancelled # 0
    /\ lastCall.cancelled \in DOMAIN tasks
    /\ tasks[lastCall.cancelled].pc = "new"
    /\ tasks[lastCall.cancelled].conn = lastCall.conn
    /\ Cardinality(LiveLoops(lastCall.conn)) = 1

\* C2: every station has at most one persisted session with active=true,
\* and a createSession that succeeded leaves its new session as the only
\* active one of its station.
C2_OneActivePerStation ==
    /\ \A st \in Stations : Cardinality(ActiveSessions(st)) <= 1
    /\ (sessRet.op = "create" /\ sessRet.ret = "ok") =>
          ActiveSessions(sessions[sessRet.sid].station_id) = {sessRet.sid}

\* the background execution of a started run has returned
BgFinished == run.mode = "bg" /\ run.pc = "done" /\ RunId \in DOMAIN status

\* the maturation calls among the inference calls made
MaturationCalls == SelectSeq(calls, LAMBDA c : c.op = "maturation")

\* the detections of rs whose confidence is at least thr
Qualifying(rs, thr) == SelectSeq(rs, LAMBDA conf : conf >= thr)

\* C3: once the background execution of a run has finished, the run's
\* persisted status item has status completed or error and progress 1.0,
\* whatever the inference calls and the store reads and writes did.
C3_FinalStatus ==
    BgFinished => /\ status[RunId].status \in {"completed", "error"}
                  /\ status[RunId].progress = 100

\* the progress values of the spec's sequence, in hundredths
ProgressValues == {0, 10, 20, 30, 50, 60, 80, 100}

\* C4: the progress persisted for a run never decreases: start writes 0.0
\* and every later write stores a value of 0.0, 0.1, 0.2, 0.3, 0.5, 0.6,
\* 0.8, 1.0 that is at least the value persisted before it.
C4_ProgressNeverDecreases ==
    [][/\ DOMAIN status \subseteq DOMAIN status'
       /\ \A r \in DOMAIN status' :
            /\ r \notin DOMAIN status => status'[r].progress = 0
            /\ r \in DOMAIN status
                 => /\ status'[r].progress \in ProgressValues
                    /\ status'[r].progress >= status[r].progress]_vars

\* C4 witness: a run whose execution went through every update, maturation
\* included, and finished completed at progress 1.0.
C4_Witness ==
    /\ BgFinished
    /\ status[RunId].status = "completed"
    /\ status[RunId].progress = 100
    /\ status[RunId].detection_complete
    /\ status[RunId].maturation_complete
    /\ status[RunId].image_id = run.image

\* the transitions of the status state machine of the spec
StatusEdges ==
    {<<"queued", "processing">>, <<"processing", "detecting">>,
     <<"detecting", "detecting_maturation">>,
     <<"detecting", "detection_complete">>,
     <<"detecting_maturation", "completed">>,
     <<"detection_complete", "completed">>}
    \cup {<<s, "error">> : s \in {"queued", "processing", "detecting",
                                  "detecting_maturation", "detection_complete"}}

\* C5: the persisted status of a run changes only along an edge of
\* queued -> processing -> detecting -> (detecting_maturation or
\* detection_complete) -> completed, or to error from a non-terminal
\* status, and only a step of the background execution changes it.
C5_StatusAlongEdges ==
    [][\A r \in DOMAIN status \cap DOMAIN status' :
         status'[r].status # status[r].status
          => /\ <<status[r].status, status'[r].status>> \in StatusEdges
             /\ r = RunId
             /\ run.mode = "bg"
             /\ run.pc \in UpdatePcs]_vars

\* C6: a background run whose detection failed or found nothing, and in
\* which no store write of an artifact raised, never calls maturation,
\* persists a combined result holding the detection result only, and ends
\* completed at progress 1.0 with error equal to the detection's message.
C6_DetectionOnly ==
    (/\ BgFinished
     /\ run.detection_result # NoResult
     /\ run.detection_result.status # "success"
            \/ run.detection_result.results = <<>>
     /\ run.exc = NoneV)
       => /\ MaturationCalls = <<>>
          /\ <<run.image, "COMBINED">> \in DOMAIN items
          /\ items[<<run.image, "COMBINED">>].maturation = "none"
          /\ items[<<run.image, "COMBINED">>].detection
                = run.detection_result.status
          /\ status[RunId].status = "completed"
          /\ status[RunId].progress = 100
          /\ status[RunId].error = run.detection_result.error_message

\* C7: a run executed with skip_maturation=true, in background or
\* synchronously, never calls the maturation inference, whatever detection
\* returned.
C7_SkipMeansNoMaturation ==
    run.skip_maturation => MaturationCalls = <<>>

\* C7 witness: a run with skip_maturation=true has ended after a successful
\* detection with a detection at or above the threshold, having called
\* detection only.
C7_Witness ==
    /\ run.skip_maturation
    /\ run.pc \in {"done", "returned"}
    /\ run.exc = NoneV
    /\ run.detection_result.status = "success"
    /\ Qualifying(run.detection_result.results, run.maturation_threshold) # <<>>
    /\ <<run.image, "COMBINED">> \in DOMAIN items
    /\ calls = <<[op |-> "detect", boxes |-> <<>>]>>

\* C8: in a background run with skip_maturation=false, a successful
\* non-empty detection and no exception, maturation is called once with
\* exactly the detections whose confidence >= maturation_threshold when
\* there is one, and is not called when there is none, in which case the
\* run ends completed with no error recorded.
C8_MaturationOnQualifying ==
    (/\ BgFinished
     /\ ~run.skip_maturation
     /\ run.detection_result.status = "success"
     /\ run.detection_result.results # <<>>
     /\ run.exc = NoneV)
       => LET q == Qualifying(run.detection_result.results,
                              run.maturation_threshold)
          IN IF q # <<>>
             THEN MaturationCalls = <<[op |-> "maturation", boxes |-> q]>>
             ELSE /\ MaturationCalls = <<>>
                  /\ status[RunId].status = "completed"
                  /\ status[RunId].error = NoneV

\* C9: a background run whose image-metadata write raised ends with status
\* error and the text of that failure as its error, and calls neither
\* detection nor maturation.
C9_MetadataWriteFailure ==
    (BgFinished /\ run.exc = "metadata write failed")
       => /\ status[RunId].status = "error"
          /\ status[RunId].error = "metadata write failed"
          /\ calls = <<>>

\* C10: an exception raised at a step of a background run does not escape
\* execute_in_background, leaves the status item at status=error,
\* progress=1.0 and error=the exception text, and leaves every artifact
\* written before it in the store.
C10_ExceptionRecorded ==
    /\ run.mode = "bg" => run.pc # "raised"
    /\ (BgFinished /\ run.exc # NoneV)
         => /\ status[RunId].status = "error"
            /\ status[RunId].progress = 100
            /\ status[RunId].error = run.exc
            /\ run.exc \notin {"image construction failed",
                            "metadata write failed"}
                  => <<run.image, "META">> \in DOMAIN items
            /\ run.exc \in {"maturation raised", "maturation write failed",
                            "combined write failed"}
                  => <<run.image, "DETECTION">> \in DOMAIN items
            /\ (run.exc = "combined write failed"
                  /\ run.maturation_result # NoResult)
                  => <<run.image, "MATURATION">> \in DOMAIN items

\* the store writes of artifacts that can raise
StoreFailures ==
    {"metadata write failed", "detection write failed",
     "maturation write failed", "combined write failed"}

\* C11: a failure result of the inference service (detection returned with
\* status error, or the service answered the maturation request with status
\* error) never puts the run in status error: in a background run in which
\* no store write raised, the status item is never error and the finished
\* run has persisted a combined result that is not a full one.
C11_InferenceFailureNotFatal ==
    (/\ run.mode = "bg"
     /\ RunId \in DOMAIN status
     /\ run.detection_result.status = "error"
           \/ run.maturation_response = "error"
     /\ run.exc \notin StoreFailures)
       => /\ status[RunId].status # "error"
          /\ run.pc = "done"
               => /\ <<run.image, "COMBINED">> \in DOMAIN items
                  /\ items[<<run.image, "COMBINED">>].status # "completed"

\* C12: a start_processing step either writes exactly one item, the status
\* item of a request id that no earlier item has, with status queued,
\* progress 0.0, no image id, no combined id, no error and both completion
\* flags false, or (when that write fails) writes nothing and raises; in
\* both cases it calls no inference operation and writes no artifact.
C12_StartWritesOneRecord ==
    [][(run'.mode = "start" /\ uuidCount' # uuidCount)
         => /\ calls' = calls
            /\ items' = items
            /\ IF run'.pc = "queued"
               THEN /\ run'.request_id \notin DOMAIN status
                    /\ DOMAIN status' = DOMAIN status \cup {run'.request_id}
                    /\ \A r \in DOMAIN status : status'[r] = status[r]
                    /\ status'[run'.request_id] =
                         [status |-> "queued", progress |-> 0, image_id |-> 0,
                          detection_complete |-> FALSE,
                          maturation_complete |-> FALSE,
                          combined_id |-> 0, error |-> NoneV]
               ELSE /\ run'.pc = "raised"
                    /\ run'.exc = "status write failed"
                    /\ status' = status]_vars

\* C12 witness: a second start_processing has returned: two status items
\* under two request ids, both queued, and nothing else written or called.
C12_Witness ==
    /\ run.mode = "start"
    /\ run.pc = "queued"
    /\ Cardinality(DOMAIN status) = 2
    /\ \A r \in DOMAIN status : status[r].status = "queued"
    /\ items = <<>>
    /\ calls = <<>>

\* C13: a get_result_by_request_id call returns None when the run's status
\* item is missing, is not completed, or lacks the combined id or the image
\* id; and when the item is completed with both ids and no store read
\* failed, it returns the combined result persisted for that image.
C13_ResultByRequestId ==
    [][(reply' # reply /\ reply'.op = "get_result")
         => LET rid == reply'.rid
                ready == /\ rid \in DOMAIN status
                         /\ status[rid].status = "completed"
                         /\ status[rid].combined_id # 0
                         /\ status[rid].image_id # 0
            IN /\ ~ready => reply'.ret = ReturnNone
               /\ (ready /\ ~reply'.failed)
                    => /\ <<status[rid].image_id, "COMBINED">> \in DOMAIN items
                       /\ reply'.ret.kind = "value"
                       /\ reply'.ret.value
                            = items[<<status[rid].image_id, "COMBINED">>]]_vars

\* C14: a get_processing_status call returns None when the request id has
\* no status item and otherwise returns exactly the status and progress of
\* the persisted item; it changes no status item and writes nothing.
C14_StatusMirror ==
    [][(reply' # reply /\ reply'.op = "get_status")
         => /\ status' = status
            /\ items' = items
            /\ IF reply'.rid \in DOMAIN status
               THEN reply'.ret =
                      ReturnValue([status |-> status[reply'.rid].status,
                                   progress |-> status[reply'.rid].progress])
               ELSE reply'.ret = ReturnNone]_vars

\* C15: a CombinedResult built from a detection result and an optional
\* maturation result has status completed when the maturation result exists
\* with status success, detection_completed when it does not and the
\* detection has status success, and error otherwise; its results are the
\* maturation result's when there is one and the detection's when not.
C15_DerivedStatus ==
    crResult # ReturnNone
      => LET det == crArgs.detection_result
             mat == crArgs.maturation_result
             cr == crResult.value
             matOk == mat # NoResult /\ mat.status = "success"
         IN /\ matOk => cr.status = "completed"
            /\ (~matOk /\ det.status = "success")
                 => cr.status = "detection_completed"
            /\ (~matOk /\ det.status # "success") => cr.status = "error"
            /\ mat # NoResult => cr.results = mat.results
            /\ mat = NoResult => cr.results = det.results

\* C15 witness: a CombinedResult was built from a successful detection and
\* a maturation result that exists but failed, with different detections.
C15_Witness ==
    /\ crResult # ReturnNone
    /\ crArgs.maturation_result # NoResult
    /\ crArgs.maturation_result.status = "error"
    /\ crArgs.detection_result.status = "success"
    /\ crArgs.maturation_result.results # crArgs.detection_result.results
    /\ crResult.value.status = "detection_completed"

\* C16: when a step of execute raises after image was created, execute
\* does not raise: it returns a CombinedResult whose detection result has
\* status error, no detections and a message holding the exception text,
\* so its status is error; when the exception comes before image exists,
\* execute raises it again and returns nothing.
C16_SyncExceptionResult ==
    (run.mode = "sync" /\ run.exc # NoneV)
      => IF run.image # 0
         THEN /\ run.pc = "returned"
              /\ run.returned.kind = "value"
              /\ run.returned.value.detection_result.status = "error"
              /\ run.returned.value.detection_result.results = <<>>
              /\ run.returned.value.detection_result.error_message
                    = <<"Erro interno: ", run.exc>>
              /\ run.returned.value.maturation_result = NoResult
              /\ run.returned.value.status = "error"
              /\ run.returned.value.image_id = run.image
         ELSE /\ run.pc = "raised"
              /\ run.returned = ReturnNone

\* C16 witness: execute has returned an error CombinedResult after the
\* write of the detection result raised, the image metadata being saved.
C16_Witness ==
    /\ run.mode = "sync"
    /\ run.pc = "returned"
    /\ run.exc = "detection write failed"
    /\ run.detection_result.status = "success"
    /\ <<run.image, "META">> \in DOMAIN items
    /\ run.returned.value.status = "error"

\* the kinds of artifact persisted for an image
PersistedKinds(image) ==
    {k \in {"META", "DETECTION", "MATURATION", "COMBINED"} :
        <<image, k>> \in DOMAIN items}

\* C17: execute and execute_in_background run the same pipeline: a run of
\* either that got a detection result and ended without an exception has
\* called detection once, then maturation exactly when the outcomes ask for
\* it, and has persisted the image metadata, the detection result, the
\* maturation result when there is one, and the combined result built from
\* them, whichever of the two ran.
C17_SamePipeline ==
    (/\ run.pc \in {"done", "returned"}
     /\ run.mode \in {"bg", "sync"}
     /\ run.detection_result # NoResult
     /\ run.exc = NoneV)
       => /\ PersistedKinds(run.image) =
                {"META", "DETECTION", "COMBINED"}
                \cup (IF run.maturation_result # NoResult
                      THEN {"MATURATION"} ELSE {})
          /\ items[<<run.image, "COMBINED">>].detection_result
                = run.detection_result
          /\ items[<<run.image, "COMBINED">>].maturation_result
                = run.maturation_result
          /\ Len(calls) = IF run.maturation_result # NoResult THEN 2 ELSE 1
          /\ calls[1].op = "detect"

\* no transport, no config and no task handle for c, and no loop of c that
\* could still send
Gone(c) ==
    /\ c \notin active_connections
    /\ c \notin DOMAIN connection_configs
    /\ c \notin DOMAIN scheduled_tasks
    /\ LiveLoops(c) = {}

\* C18: after disconnect(c) the registry has no transport, config or task
\* handle for c and c's loop is cancelled; a disconnect of an id that is
\* not registered (never was, or disconnected already) changes nothing in
\* the registry and cancels nothing.
C18_DisconnectIdempotent ==
    [][/\ \A c \in ConnIds :
            (lastCall'.op = "disconnect" /\ lastCall'.conn = c) => Gone(c)'
       /\ (/\ lastCall' # lastCall
           /\ lastCall'.op = "disconnect"
           /\ lastCall'.conn \notin active_connections)
            => /\ UNCHANGED <<active_connections, connection_configs,
                              scheduled_tasks, tasks>>
               /\ lastCall'.cancelled = 0]_vars

\* C18 witness: a second disconnect of a connection whose running loop the
\* first disconnect cancelled (the cancellation is still pending).
C18_Witness ==
    /\ lastCall.op = "disconnect"
    /\ ~lastCall.ret
    /\ lastCall.conn <= connCount
    /\ Gone(lastCall.conn)
    /\ \E t \in DOMAIN tasks :
          tasks[t].conn = lastCall.conn /\ tasks[t].must_cancel

\* a step in which configure_monitoring returned: the call record changed,
\* or a task was created under an unchanged call record
ConfigureStep ==
    /\ lastCall'.op = "configure"
    /\ lastCall' # lastCall \/ taskCount' # taskCount

\* C19: configure_monitoring on an unknown connection returns false and
\* changes no registry entry and no loop; on a registered connection it
\* returns true, every loop the connection had is cancelled, and afterwards
\* the connection has a running loop exactly when is_active was true (and
\* never more than one).
C19_Configure ==
    [][/\ \A c \in ConnIds :
            (lastCall'.op = "configure" /\ lastCall'.conn = c /\ lastCall'.ret)
              => /\ (LiveLoops(c) # {})' <=> connection_configs'[c].is_active
                 /\ Cardinality(LiveLoops(c))' <= 1
       /\ (ConfigureStep /\ lastCall'.conn \notin active_connections)
            => /\ ~lastCall'.ret
               /\ UNCHANGED <<active_connections, connection_configs,
                              scheduled_tasks, tasks>>
       /\ \A c \in ConnIds :
            (ConfigureStep /\ lastCall'.conn = c /\ c \in active_connections)
              => /\ lastCall'.ret
                 /\ \A t \in LiveLoops(c) : t \notin LiveLoops(c)'
                 /\ LiveLoops(c) # {} => lastCall'.cancelled \in LiveLoops(c)]_vars

\* C19 witness: configure_monitoring with is_active false has cancelled the
\* loop that was running for the connection.
C19_Witness ==
    /\ lastCall.op = "configure"
    /\ lastCall.ret
    /\ lastCall.cancelled # 0
    /\ ~connection_configs[lastCall.conn].is_active
    /\ LiveLoops(lastCall.conn) = {}

\* a step in which start_monitoring returned
StartStep ==
    /\ lastCall'.op = "start"
    /\ lastCall' # lastCall \/ taskCount' # taskCount

\* the two outcomes of start_monitoring(c): refused (false, no loop started,
\* config untouched) or started (true, is_active set, exactly one loop)
StartRefused ==
    /\ ~lastCall'.ret
    /\ UNCHANGED <<active_connections, connection_configs, scheduled_tasks,
                   tasks>>

StartStarted(c) ==
    /\ lastCall'.ret
    /\ connection_configs'[c].is_active
    /\ Cardinality(LiveLoops(c))' = 1

LacksStation(c) == connection_configs[c].station_id = NoneV

LacksUser(c) == connection_configs[c].user_id = NoneV

\* C20 as stated: start_monitoring is refused when the connection is unknown
\* or its config lacks both station_id and user_id, and starts the loop in
\* every other case.
C20_StartRefusedWhenBothMissing ==
    [][\A c \in ConnIds :
         (StartStep /\ lastCall'.conn = c)
           => IF c \notin DOMAIN connection_configs
                 \/ (LacksStation(c) /\ LacksUser(c))
              THEN StartRefused
              ELSE StartStarted(c)]_vars

\* C20 amended: start_monitoring is refused when the connection is unknown
\* or its config lacks station_id or lacks user_id, and in every other case
\* it sets is_active, leaves exactly one loop running and returns true.
C20_StartRefusedWhenOneMissing ==
    [][\A c \in ConnIds :
         (StartStep /\ lastCall'.conn = c)
           => IF c \notin DOMAIN connection_configs
                 \/ LacksStation(c) \/ LacksUser(c)
              THEN StartRefused
              ELSE StartStarted(c)]_vars

\* C20 witness: start_monitoring was refused for a registered connection
\* whose config names a station but no user.
C20_Witness ==
    /\ lastCall.op = "start"
    /\ ~lastCall.ret
    /\ lastCall.conn \in DOMAIN connection_configs
    /\ connection_configs[lastCall.conn].station_id # NoneV
    /\ connection_configs[lastCall.conn].user_id = NoneV
    /\ ~connection_configs[lastCall.conn].is_active

\* a step in which stop_monitoring returned
StopStep == lastCall'.op = "stop" /\ lastCall' # lastCall

\* the steps in which task t hands a capture_request to the transport
Sends(t) ==
    /\ t \in DOMAIN tasks /\ t \in DOMAIN tasks'
    /\ tasks[t].pc # "send" /\ tasks'[t].pc = "send"

\* C21: stop_monitoring returns false for an unknown connection and changes
\* nothing; for a registered one it returns true and leaves is_active false
\* and no loop running, whether or not a loop was running before. While
\* is_active is false no loop of the connection can send, a capture_request
\* is only ever sent for a connection whose is_active is true, and is_active
\* only becomes true in a configure_monitoring or start_monitoring call.
C21_StopSilences ==
    [][/\ \A c \in ConnIds :
            (StopStep /\ lastCall'.conn = c)
              => IF c \notin DOMAIN connection_configs
                 THEN /\ ~lastCall'.ret
                      /\ UNCHANGED <<active_connections, connection_configs,
                                     scheduled_tasks, tasks>>
                 ELSE /\ lastCall'.ret
                      /\ ~connection_configs'[c].is_active
                      /\ LiveLoops(c)' = {}
                      /\ LiveLoops(c) = {} => lastCall'.cancelled = 0
       /\ \A c \in DOMAIN connection_configs' :
            /\ ~connection_configs'[c].is_active => LiveLoops(c)' = {}
            /\ (/\ connection_configs'[c].is_active
                /\ c \in DOMAIN connection_configs
                /\ ~connection_configs[c].is_active)
                 => /\ lastCall'.op \in {"configure", "start"}
                    /\ lastCall'.conn = c
       /\ \A t \in DOMAIN tasks :
            Sends(t) => /\ tasks[t].conn \in DOMAIN connection_configs
                        /\ connection_configs[tasks[t].conn].is_active
                        /\ ~tasks[t].must_cancel]_vars

\* C21 witness: stop_monitoring has cancelled a loop that was asleep after
\* a capture_request it had sent.
C21_Witness ==
    /\ lastCall.op = "stop" /\ lastCall.ret
    /\ lastCall.cancelled \in DOMAIN tasks
    /\ tasks[lastCall.cancelled].pc = "sleep"
    /\ tasks[lastCall.cancelled].must_cancel
    /\ connection_configs[lastCall.conn].last_capture = "ts"
    /\ ~connection_configs[lastCall.conn].is_active

\* a step in which send_personal_message returned
SendStep == lastCall'.op = "send" /\ lastCall' # lastCall

\* C22: send_personal_message returns false when the connection is unknown
\* and when send_json raised, true otherwise, and in every case leaves the
\* transports, the configs, the task handles and the loops as they were.
C22_SendLeavesRegistry ==
    [][SendStep
         => /\ lastCall'.ret <=> (/\ lastCall'.conn \in active_connections
                                  /\ ~lastCall'.failed)
            /\ UNCHANGED <<active_connections, connection_configs,
                           scheduled_tasks, tasks>>]_vars

\* C22 witness: send_json raised for a registered connection whose loop is
\* running; send_personal_message returned false and the loop still runs.
C22_Witness ==
    /\ lastCall.op = "send" /\ lastCall.failed /\ ~lastCall.ret
    /\ lastCall.conn \in active_connections
    /\ lastCall.conn \in DOMAIN connection_configs
    /\ LiveLoops(lastCall.conn) # {}

\* a step in which broadcast ended, by returning or by raising
BroadcastEnds == bcast.pc = "iter" /\ bcast'.pc \in {"done", "raised"}

\* C23: when broadcast ends, every connection whose send_json raised is
\* disconnected (no transport, no config, no task handle, no loop left to
\* send), and the step changes nothing of a connection whose send_json
\* returned.
C23_BroadcastDisconnectsFailed ==
    [][BroadcastEnds
         => /\ \A c \in BroadcastIds : c \in bcast'.failed => Gone(c)'
            /\ \A c \in BroadcastIds :
                 (c \in bcast'.sent /\ c \in active_connections)
                   => /\ c \in active_connections'
                      /\ connection_configs'[c] = connection_configs[c]
                      /\ (c \in DOMAIN scheduled_tasks
                            => /\ c \in DOMAIN scheduled_tasks'
                               /\ scheduled_tasks'[c] = scheduled_tasks[c]
                               /\ tasks'[scheduled_tasks[c]] =
                                      tasks[scheduled_tasks[c]])]_vars

\* a step in which record_capture ended
RecordStep ==
    /\ sessRet'.op = "record"
    /\ sessRet' # sessRet \/ capCount' # capCount

\* membership in a list of capture ids
InList(cid, list) == \E i \in 1..Len(list) : list[i] = cid

\* C24: record_capture for a session that does not exist fails and persists
\* nothing (no capture item, no session change); when it returns a
\* CaptureResult, the capture item is persisted with status captured and
\* the persisted session's captures list contains the new capture id.
C24_RecordCapture ==
    [][RecordStep
         => /\ sessRet'.sid \notin DOMAIN sessions
                 => /\ sessRet'.ret # "ok"
                    /\ UNCHANGED <<sessions, captures>>
            /\ sessRet'.ret = "notfound" => UNCHANGED <<sessions, captures>>
            /\ sessRet'.ret = "ok"
                 => /\ capCount' \in DOMAIN captures' \ DOMAIN captures
                    /\ captures'[capCount'].status = "captured"
                    /\ captures'[capCount'].session_id = sessRet'.sid
                    /\ InList(capCount', sessions'[sessRet'.sid].captures)]_vars

\* the number of places of a list that hold cid
Occurrences(cid, list) == Cardinality({i \in 1..Len(list) : list[i] = cid})

\* C25: in every state between operations, no session's captures list
\* holds an id twice, and every persisted capture is listed exactly once in
\* the captures list of its session.
C25_CaptureListedOnce ==
    /\ \A sid \in DOMAIN sessions : \A cid \in CaptureIds :
          Occurrences(cid, sessions[sid].captures) <= 1
    /\ \A cid \in DOMAIN captures :
          /\ captures[cid].session_id \in DOMAIN sessions
          /\ Occurrences(cid, sessions[captures[cid].session_id].captures) = 1

\* a step in which update_capture_status returned
UpdateCaptureStep ==
    /\ sessRet'.op = "update_capture"
    /\ sessRet' # sessRet \/ captures' # captures

\* C26: update_capture_status returns None only when the session has no
\* capture with the given id; when it has one, the capture is persisted
\* and returned with the new status, with result ids that include the old
\* and the given ones and nothing else, and with the old metadata updated
\* by the given one.
C26_UpdateCaptureStatus ==
    [][UpdateCaptureStep
         => LET sid == sessRet'.sid
                cid == sessRet'.cid
            IN IF cid \in get_capture_results(sid)
               THEN /\ sessRet'.ret = "ok"
                    /\ cid \in DOMAIN captures'
                    /\ captures'[cid].status \in CaptureStatuses
                    /\ captures[cid].result_ids \subseteq captures'[cid].result_ids
                    /\ \A k \in {p[1] : p \in captures[cid].metadata} :
                          \E p \in captures'[cid].metadata : p[1] = k
               ELSE /\ sessRet'.ret = "none"
                    /\ UNCHANGED <<sessions, captures>>]_vars

\* a step in which update_session ended
UpdateStep ==
    /\ sessRet'.op = "update"
    /\ sessRet' # sessRet \/ sessions' # sessions

\* the keys of a metadata dict
Keys(md) == {p[1] : p \in md}

\* C27: update_session writes nothing when the session does not exist and
\* returns None then (or raises, when the store fails); otherwise, when it
\* returns the session, it has written it with interval_minutes, active
\* and the metadata keys replaced where they were given and kept where they
\* were not, with station_id, user_id, start_time and captures as they
\* were, with end_time stamped when active went from true to false and
\* unchanged otherwise, and it has touched no other session; when it
\* raises it has written nothing.
C27_UpdateSessionFrame ==
    [][UpdateStep
         => LET sid == sessRet'.sid
                st == sessRet'.args[1]
                iv == sessRet'.args[2]
                act == sessRet'.args[3]
                md == sessRet'.args[4]
                ret == sessRet'.ret
            IN IF get_session_by_id(st, sid) = 0
               THEN /\ ret \in {"none", "raise"}
                    /\ UNCHANGED sessions
               ELSE /\ ret \in {"ok", "raise"}
                    /\ ret = "raise" => UNCHANGED sessions
                    /\ ret = "ok" =>
                         LET old == sessions[sid]
                             new == sessions'[sid]
                         IN /\ DOMAIN sessions' = DOMAIN sessions
                            /\ \A o \in DOMAIN sessions \ {sid} :
                                  sessions'[o] = sessions[o]
                            /\ new.station_id = old.station_id
                            /\ new.user_id = old.user_id
                            /\ new.start_time = old.start_time
                            /\ new.captures = old.captures
                            /\ new.interval_minutes =
                                  IF iv = NoInterval THEN old.interval_minutes
                                  ELSE iv
                            /\ new.active =
                                  IF act = NoneV THEN old.active
                                  ELSE act = "true"
                            /\ md \subseteq new.metadata
                            /\ new.metadata \subseteq old.metadata \cup md
                            /\ \A p \in old.metadata :
                                  p[1] \notin Keys(md) => p \in new.metadata
                            /\ Cardinality(Keys(new.metadata)) =
                                  Cardinality(new.metadata)
                            /\ IF old.active /\ ~new.active
                               THEN new.end_time \in Nows
                               ELSE new.end_time = old.end_time]_vars

\* C27 witness: update_session has ended a session that has a capture,
\* with a new interval and new metadata keys.
C27_Witness ==
    /\ sessRet.op = "update" /\ sessRet.ret = "ok"
    /\ sessRet.args[3] = "false"
    /\ ~sessions[sessRet.sid].active
    /\ sessions[sessRet.sid].end_time = "later"
    /\ sessions[sessRet.sid].interval_minutes = 10
    /\ sessions[sessRet.sid].captures # <<>>
    /\ sessions[sessRet.sid].metadata = {<<"a", 2>>, <<"b", 2>>, <<"c", 1>>}
\* C28: a call of create_session, update_session, stop_session,
\* record_capture or update_capture_status during which a table operation
\* raised ends by raising: it returns neither None nor False, nor a result
\* as if nothing had failed.
C28_StoreFailureRaises ==
    sessRet.failed => sessRet.ret = "raise"
\* the number of calls of an inference operation made so far
RECURSIVE CallCount(_, _)
CallCount(cs, op) ==
    IF cs = <<>> THEN 0
    ELSE (IF Head(cs).op = op THEN 1 ELSE 0) + CallCount(Tail(cs), op)

\* the execution has ended, or the status item of its run says so
RunEnded ==
    \/ run.mode \in {"bg", "sync"} /\ run.pc \in {"done", "returned", "raised"}
    \/ /\ RunId \in DOMAIN status
       /\ status[RunId].status \in {"completed", "error"}

\* C29: an execution, in the background or synchronous, calls
\* detect_objects at most once and analyze_maturation_with_boxes at most
\* once whatever they return or raise, and once it has ended or its status
\* item says completed or error, no inference call and no write of a status
\* item or of another item follows.
C29_NoRetry ==
    [][/\ CallCount(calls', "detect") <= 1
       /\ CallCount(calls', "maturation") <= 1
       /\ RunEnded => UNCHANGED <<status, items, calls>>]_vars

\* C29 witness: a background execution has ended after one detection and
\* one maturation call, the second of which raised.
C29_Witness ==
    /\ run.mode = "bg" /\ run.pc = "done"
    /\ run.exc = "maturation raised"
    /\ CallCount(calls, "detect") = 1
    /\ CallCount(calls, "maturation") = 1
    /\ RunId \in DOMAIN status /\ status[RunId].status = "error"
\* C30: while execute_in_background runs for a request id that has no
\* status item, no status item, image metadata, result or combined result
\* is written and no inference operation is called, and the execution only
\* reads the status and returns, without an exception.
C30_MissingStatusAborts ==
    [][(run'.mode = "bg" /\ run'.request_id \notin DOMAIN status')
         => /\ UNCHANGED <<status, items, calls, uuidCount>>
            /\ run'.pc \in {"check", "done"}
            /\ run'.exc = NoneV]_vars

\* C30 witness: an execution for an id without a status item has returned.
C30_Witness ==
    /\ run.mode = "bg" /\ run.pc = "done"
    /\ run.request_id \notin DOMAIN status
    /\ run.exc = NoneV
    /\ items = <<>> /\ calls = <<>>
\* a step in which disconnect returned
DisconnectStep == lastCall'.op = "disconnect" /\ lastCall' # lastCall

\* C31: a loop hands a capture_request to the transport only in a state in
\* which its connection is registered and its config has is_active true; a
\* connection that was disconnected is never registered again, so nothing
\* is sent for it afterwards; disconnect cancels every loop of the
\* connection that has not finished, a sleeping one included, and the next
\* step of a cancelled loop is its end, not the end of its sleep.
C31_LoopSendsWhileRegistered ==
    [][/\ \A t \in DOMAIN tasks :
            Sends(t) => /\ tasks[t].conn \in active_connections
                        /\ tasks[t].conn \in DOMAIN connection_configs
                        /\ connection_configs[tasks[t].conn].is_active
       /\ \A c \in ConnIds :
            (c <= connCount /\ c \notin active_connections)
              => /\ c \notin active_connections'
                 /\ \A t \in DOMAIN tasks : Sends(t) => tasks[t].conn # c
       /\ \A c \in ConnIds, t \in DOMAIN tasks :
            (/\ DisconnectStep /\ lastCall'.conn = c
             /\ tasks[t].conn = c /\ ~TaskDone(tasks[t]))
              => /\ t \in DOMAIN tasks'
                 /\ tasks'[t].must_cancel
                 /\ tasks'[t].pc = tasks[t].pc
       /\ \A t \in DOMAIN tasks :
            (tasks[t].must_cancel /\ ~TaskDone(tasks[t]))
              => \/ t \notin DOMAIN tasks'
                 \/ tasks'[t] = tasks[t]
                 \/ TaskDone(tasks'[t])]_vars

\* C31 witness: disconnect has cancelled a loop that was asleep after a
\* capture_request it had sent, and the connection is gone.
C31_Witness ==
    /\ lastCall.op = "disconnect" /\ lastCall.ret
    /\ lastCall.cancelled \in DOMAIN tasks
    /\ tasks[lastCall.cancelled].pc = "sleep"
    /\ tasks[lastCall.cancelled].must_cancel
    /\ tasks[lastCall.cancelled].conn = lastCall.conn
    /\ lastCall.conn \notin active_connections
\* task t ends in this step: it was unfinished and is finished or collected
Ends(t) ==
    /\ t \in DOMAIN tasks /\ ~TaskDone(tasks[t])
    /\ t \notin DOMAIN tasks' \/ TaskDone(tasks'[t])

\* C32: a loop that ends after its send, which it can only by an exception,
\* leaves the config of its connection, when there is one, with is_active
\* false and otherwise as the loop had it; a finished loop takes no further
\* step, so it sends nothing; a loop that ends by cancellation leaves every
\* config as it was.
C32_LoopEndings ==
    [][\A t \in DOMAIN tasks :
         /\ (Ends(t) /\ tasks[t].pc = "send" /\ ~tasks[t].must_cancel)
              => LET c == tasks[t].conn IN
                 /\ DOMAIN connection_configs' = DOMAIN connection_configs
                 /\ c \in DOMAIN connection_configs
                      => /\ ~connection_configs'[c].is_active
                         /\ \A d \in DOMAIN connection_configs \ {c} :
                               connection_configs'[d] = connection_configs[d]
         /\ TaskDone(tasks[t])
              => t \notin DOMAIN tasks' \/ tasks'[t] = tasks[t]
         /\ (Ends(t) /\ tasks[t].must_cancel)
              => UNCHANGED connection_configs]_vars

\* C32 witness: the loop of a connection configured with interval None has
\* sent a capture_request and ended in its except branch; the connection
\* is registered, its last call was configure_monitoring(is_active=True),
\* and its config has is_active false.
C32_Witness ==
    /\ lastCall.op = "configure" /\ lastCall.ret
    /\ lastCall.conn \in active_connections
    /\ lastCall.conn \in DOMAIN scheduled_tasks
    /\ scheduled_tasks[lastCall.conn] \in DOMAIN tasks
    /\ TaskDone(tasks[scheduled_tasks[lastCall.conn]])
    /\ connection_configs[lastCall.conn].interval_minutes = NoInterval
    /\ connection_configs[lastCall.conn].last_capture = "ts"
    /\ ~connection_configs[lastCall.conn].is_active
\* no session call is under way
AllReturned == \A p \in ProcIds : procs[p].op = "idle"

\* C33: once the create_session calls that interleaved at their table
\* operations have all returned, and no capture was recorded meanwhile,
\* every station has at most one session with active = true.
C33_OneActiveAfterRace ==
    (AllReturned /\ capCount = 0)
      => \A st \in RaceStations : Cardinality(ActiveSessions(st)) <= 1
\* C34: once the record_capture calls that interleaved at their table
\* operations have all returned, and no session was ended meanwhile, every
\* capture they persisted is in the persisted captures list of its session
\* exactly once.
C34_NoCaptureLostAfterRace ==
    (AllReturned /\ deactivated = {})
      => \A cid \in DOMAIN captures :
            /\ captures[cid].session_id \in DOMAIN sessions
            /\ Occurrences(cid, sessions[captures[cid].session_id].captures) = 1

\* C35: once the calls have all returned, every session that stop_session
\* or create_session wrote with active = false is persisted with
\* active = false, whatever record_capture calls interleaved with them.
C35_DeactivationStays ==
    AllReturned => \A sid \in deactivated : ~sessions[sid].active
\* C36: the status item of a run changes only in the one
\* _update_processing_status call the background execution stands at, and
\* the execution moves past that call in the same step, so no two
\* read-merge-writes overlap; once the item says completed or error, its
\* status, progress, combined_id and error never change.
C36_SequentialThenFrozen ==
    [][\A rid \in DOMAIN status :
         /\ rid \in DOMAIN status'
         /\ status'[rid] # status[rid]
              => /\ rid = RunId /\ run.mode = "bg"
                 /\ run.pc \in UpdatePcs
                 /\ run'.pc # run.pc
                 /\ run'.pc = AfterStep(run.pc)
                 /\ status'[rid] = MergeStatus(status[rid], StatusUpdate(run.pc))
         /\ status[rid].status \in {"completed", "error"}
              => /\ status'[rid].status = status[rid].status
                 /\ status'[rid].progress = status[rid].progress
                 /\ status'[rid].combined_id = status[rid].combined_id
                 /\ status'[rid].error = status[rid].error]_vars

\* C36 witness: a run went through every status update of the full path,
\* its item says completed with both flags and a combined id, and the
\* execution has returned.
C36_Witness ==
    /\ run.mode = "bg" /\ run.pc = "done"
    /\ RunId \in DOMAIN status
    /\ status[RunId].status = "completed"
    /\ status[RunId].progress = 100
    /\ status[RunId].maturation_complete
    /\ status[RunId].detection_complete
    /\ status[RunId].combined_id # 0
\* C37: in every state, a status item that says completed has an image_id
\* and a combined_id and the combined result of that image is persisted; one
\* with detection_complete has the detection result of its image persisted;
\* maturation_complete comes with detection_complete; and an item that does
\* not say completed has no combined_id.
C37_StatusRecordInvariant ==
    \A rid \in DOMAIN status :
        LET rec == status[rid] IN
        /\ rec.status = "completed"
             => /\ rec.image_id # 0
                /\ rec.combined_id # 0
                /\ <<rec.image_id, "COMBINED">> \in DOMAIN items
        /\ rec.detection_complete
             => /\ rid = RunId
                /\ <<run.image, "DETECTION">> \in DOMAIN items
        /\ rec.maturation_complete => rec.detection_complete
        /\ rec.status # "completed" => rec.combined_id = 0
\* C38: in every state between the steps of the registry's operations, a
\* registered connection has a config, and the config has is_active true
\* exactly when the connection has a loop that has neither finished nor
\* been cancelled; every task handle belongs to a connection that has a
\* transport and a config.
C38_ActiveIffLoop ==
    /\ \A c \in active_connections :
          /\ c \in DOMAIN connection_configs
          /\ connection_configs[c].is_active <=> LiveLoops(c) # {}
    /\ \A c \in DOMAIN scheduled_tasks :
          c \in active_connections /\ c \in DOMAIN connection_configs

\* C38 witness: a connection whose loop was replaced: the cancelled loop
\* has not ended yet, the new one is asleep after a capture_request, and
\* the config has is_active true.
C38_Witness ==
    \E c \in active_connections :
        /\ connection_configs[c].is_active
        /\ c \in DOMAIN scheduled_tasks
        /\ tasks[scheduled_tasks[c]].pc = "sleep"
        /\ LiveLoops(c) = {scheduled_tasks[c]}
        /\ \E t \in DOMAIN tasks :
              tasks[t].conn = c /\ tasks[t].must_cancel

\* the capture id record_capture minted in this step, 0 when it ended
\* before constructing the CaptureResult
NewCaptureId == IF capCount' # capCount THEN capCount' ELSE 0

\* C39: after record_capture has returned a CaptureResult, the capture item
\* is persisted under the session and its id is in the persisted session's
\* captures list; after record_capture has raised, no capture item was
\* written and no session's persisted list holds the id of the capture it
\* was recording.
C39_RecordedOrNothing ==
    [][RecordStep
         => /\ sessRet'.ret = "ok"
                 => /\ NewCaptureId \in DOMAIN captures'
                    /\ captures'[NewCaptureId].session_id = sessRet'.sid
                    /\ sessRet'.sid \in DOMAIN sessions'
                    /\ InList(NewCaptureId, sessions'[sessRet'.sid].captures)
            /\ sessRet'.ret \in {"raise", "notfound"}
                 => /\ captures' = captures
                    /\ \A sid \in DOMAIN sessions' :
                          NewCaptureId # 0
                            => ~InList(NewCaptureId, sessions'[sid].captures)]_vars

\* the handler of connection c has returned through one of its except
\* branches
HandlerEnded(c) == c \in DOMAIN handlers /\ handlers[c].pc = "ended"

\* a step in which the handler of c takes a message of unknown type
UnknownStep(c) ==
    /\ Receiving(c)
    /\ handlers'[c].pc = "reply"
    /\ handlers'[c].msg = "unknown"

\* a step in which the send_json answering a message of unknown type returns
UnknownAnswered(c) ==
    /\ c \in DOMAIN handlers
    /\ handlers[c].pc = "reply"
    /\ handlers[c].msg = "unknown"
    /\ handlers'[c].pc = "receive"

\* C40: once the handler of a connection has ended, by a client disconnect
\* or by an error while handling a message, the connection has no transport,
\* config or task handle in the registry and no loop of it is still running
\* uncancelled; a message of unknown type is answered with an error message,
\* and neither taking it nor answering it changes a config, a task handle
\* or a loop.
C40_HandlerCleansUp ==
    [][\A c \in ConnIds :
          /\ HandlerEnded(c)'
               => /\ handlers'[c].end \in {"disconnect", "error"}
                  /\ c \notin active_connections'
                  /\ c \notin DOMAIN connection_configs'
                  /\ c \notin DOMAIN scheduled_tasks'
                  /\ \A t \in DOMAIN tasks' :
                        tasks'[t].conn = c => ~TaskLive(tasks'[t])
          /\ UnknownStep(c)
               => /\ handlers'[c].out = "error"
                  /\ UNCHANGED <<active_connections, connection_configs,
                                 scheduled_tasks, tasks>>
          /\ UnknownAnswered(c)
               => /\ handlers[c].out = "error"
                  /\ UNCHANGED <<active_connections, connection_configs,
                                 scheduled_tasks, tasks>>]_vars

\* a handler has ended in its except Exception branch while its connection
\* had a loop, which is now cancelled and not yet finished
C40_Witness ==
    \E c \in DOMAIN handlers :
        /\ HandlerEnded(c)
        /\ handlers[c].end = "error"
        /\ \E t \in DOMAIN tasks : tasks[t].conn = c /\ tasks[t].must_cancel

============================================================================
